---- MODULE Spec2Model ----
(***************************************************************************)
(* Model of the observable state store of the portal front end            *)
(* (public/assets/js/core/state.js): the State class, its listeners, its   *)
(* array helpers and its localStorage persistence; of the API client and   *)
(* the session (core/api.js); of the modal dialog (components/modals.js)   *)
(* and of the form handler (components/forms.js).                          *)
(*                                                                         *)
(* JavaScript values are tagged pairs <<tag, payload>>.  Arrays and        *)
(* objects live in a heap and are referred to by <<"ref", id>>, so that    *)
(* the strict comparison of setState compares identities, as in JS.        *)
(* Strings are sequences of atoms (runs of characters); the JSON text      *)
(* written by persist and read by loadPersisted is such a sequence too.    *)
(***************************************************************************)
EXTENDS Integers, Sequences, FiniteSets, TLC

(***************************************************************************)
(* Bounds of the model.                                                    *)
(***************************************************************************)
MaxHeap == 7      \* arrays and objects allocated in all
MaxLiterals == 1  \* array literals passed to set by the callers of Spec
MaxHandles == 2   \* unsubscribe handles returned by subscribe
MaxDepth == 3     \* nested notifyListeners activations on the call stack
MaxPending == 2   \* async methods of Auth awaiting a response at a time
MaxCloses == 3    \* close requests of a modal before its animationend
MaxValidators == 2 \* validators registered on the form

(***************************************************************************)
(* JavaScript values.                                                      *)
(***************************************************************************)
Undefined == <<"undefined", 0>>
Null == <<"null", 0>>
Bool(b) == <<"boolean", b>>
Num(n) == <<"number", n>>
Str(s) == <<"string", s>>
Ref(id) == <<"ref", id>>

Tag(v) == v[1]
Payload(v) == v[2]

\* heap cells
ArrayObj(elems) == <<"array", elems>>
PlainObj(fields) == <<"object", fields>>   \* fields: sequence of <<name, value>>

IsRef(v) == Tag(v) = "ref"
\* Array.isArray(v)
IsArray(h, v) == IsRef(v) /\ h[Payload(v)][1] = "array"
\* typeof v === 'boolean'
IsBoolean(v) == Tag(v) = "boolean"

\* a comparison that takes any two arrays or objects for equal
StrictNotEqual_sameKind(a, b) == IF IsRef(a) /\ IsRef(b) THEN FALSE ELSE a # b

\* a !== b : primitives by value, arrays and objects by identity
StrictNotEqual_always(a, b) == TRUE

StrictNotEqual(a, b) == a # b

\* JS truthiness of a value (if (value), a || b)
Truthy(v) ==
    CASE Tag(v) = "undefined" -> FALSE
      [] Tag(v) = "null" -> FALSE
      [] Tag(v) = "boolean" -> Payload(v)
      [] Tag(v) = "number" -> Payload(v) # 0
      [] Tag(v) = "string" -> Payload(v) # <<>>
      [] OTHER -> TRUE

\* new array / object: the cell is appended to the heap, its id is its index
Alloc(h, cell) == [heap |-> Append(h, cell), ref |-> Ref(Len(h) + 1)]

(***************************************************************************)
(* Structural equality of two values, each read in its own heap (used to   *)
(* compare a value before persist with the value decoded after a restart). *)
(***************************************************************************)
RECURSIVE StructEq(_, _, _, _)
StructEq(h1, a, h2, b) ==
    IF Tag(a) # Tag(b) THEN FALSE
    ELSE IF ~IsRef(a) THEN a = b
    ELSE LET c1 == h1[Payload(a)]
             c2 == h2[Payload(b)]
         IN /\ c1[1] = c2[1]
            /\ Len(c1[2]) = Len(c2[2])
            /\ IF c1[1] = "array"
               THEN \A i \in 1..Len(c1[2]) : StructEq(h1, c1[2][i], h2, c2[2][i])
               ELSE \A i \in 1..Len(c1[2]) :
                        /\ c1[2][i][1] = c2[2][i][1]
                        /\ StructEq(h1, c1[2][i][2], h2, c2[2][i][2])

(***************************************************************************)
(* JSON.stringify and JSON.parse, on strings written as sequences of       *)
(* atoms.  Q is the double quote and BS the backslash; every other atom of *)
(* a string stands for a run of ordinary characters.                       *)
(***************************************************************************)
Q == "\""
BS == "\\"
DigitAtoms == <<"0", "1", "2", "3", "4", "5", "6", "7", "8", "9">>
NumAtom(n) == DigitAtoms[n + 1]
IsDigitAtom(a) == \E i \in 1..Len(DigitAtoms) : DigitAtoms[i] = a
AtomNum(a) == (CHOOSE i \in 1..Len(DigitAtoms) : DigitAtoms[i] = a) - 1

\* the quoted form of a string: quotes and backslashes are escaped
RECURSIVE Escape(_)
Escape(s) ==
    IF s = <<>> THEN <<>>
    ELSE (IF Head(s) \in {Q, BS} THEN <<BS, Head(s)>> ELSE <<Head(s)>>)
         \o Escape(Tail(s))

\* a quoted form that copies the string between the quotes as it is
Quote_raw(s) == <<Q>> \o s \o <<Q>>

Quote(s) == <<Q>> \o Escape(s) \o <<Q>>

RECURSIVE Serialize(_, _)
RECURSIVE SerializeElems(_, _)
RECURSIVE SerializeFields(_, _, _)

\* elements of an array: undefined is written as null
SerializeElems(h, elems) ==
    IF elems = <<>> THEN <<>>
    ELSE LET e == Head(elems)
             one == IF e = Undefined THEN <<"null">> ELSE Serialize(h, e)
         IN IF Len(elems) = 1 THEN one
            ELSE one \o <<",">> \o SerializeElems(h, Tail(elems))

\* fields of an object: a field holding undefined is left out
SerializeFields(h, fields, first) ==
    IF fields = <<>> THEN <<>>
    ELSE LET f == Head(fields)
         IN IF f[2] = Undefined THEN SerializeFields(h, Tail(fields), first)
            ELSE (IF first THEN <<>> ELSE <<",">>)
                 \o Quote(f[1]) \o <<":">> \o Serialize(h, f[2])
                 \o SerializeFields(h, Tail(fields), FALSE)

\* the JSON text of a value other than undefined
Serialize(h, v) ==
    CASE Tag(v) = "null" -> <<"null">>
      [] Tag(v) = "boolean" -> IF Payload(v) THEN <<"true">> ELSE <<"false">>
      [] Tag(v) = "number" -> <<NumAtom(Payload(v))>>
      [] Tag(v) = "string" -> Quote(Payload(v))
      [] Tag(v) = "ref" ->
            LET cell == h[Payload(v)]
            IN IF cell[1] = "array"
               THEN <<"[">> \o SerializeElems(h, cell[2]) \o <<"]">>
               ELSE <<"{">> \o SerializeFields(h, cell[2], TRUE) \o <<"}">>
      [] OTHER -> <<"null">>

\* JSON.stringify(v): a string value, or undefined when v is undefined
JSONstringify(h, v) ==
    IF v = Undefined THEN Undefined ELSE Str(Serialize(h, v))

\* String(v) as applied by localStorage.setItem to its second argument
ToStorageString(v) ==
    IF Tag(v) = "string" THEN Payload(v) ELSE <<"undefined">>

ParseFail(h) == [ok |-> FALSE, val |-> Undefined, rest |-> <<>>, heap |-> h]
ParseOk(v, rest, h) == [ok |-> TRUE, val |-> v, rest |-> rest, heap |-> h]

\* the characters of a string literal after its opening quote
RECURSIVE ParseString(_, _)
ParseString(toks, acc) ==
    IF toks = <<>> THEN [ok |-> FALSE, str |-> acc, rest |-> <<>>]
    ELSE IF Head(toks) = Q THEN [ok |-> TRUE, str |-> acc, rest |-> Tail(toks)]
    ELSE IF Head(toks) = BS
         THEN IF Len(toks) >= 2 /\ toks[2] \in {Q, BS}
              THEN ParseString(Tail(Tail(toks)), Append(acc, toks[2]))
              ELSE [ok |-> FALSE, str |-> acc, rest |-> <<>>]
    ELSE ParseString(Tail(toks), Append(acc, Head(toks)))

\* obj[name] = value while an object literal is read: a repeated name keeps
\* its place and takes the last value
PutField(fields, name, v) ==
    IF \E i \in 1..Len(fields) : fields[i][1] = name
    THEN [i \in 1..Len(fields) |->
             IF fields[i][1] = name THEN <<name, v>> ELSE fields[i]]
    ELSE Append(fields, <<name, v>>)

RECURSIVE ParseValue(_, _)
RECURSIVE ParseElems(_, _, _)
RECURSIVE ParseFields(_, _, _)

\* after "[" or after a ",": a value, then "," or "]"
ParseElems(toks, h, acc) ==
    LET r == ParseValue(toks, h)
    IN IF ~r.ok \/ r.rest = <<>> THEN ParseFail(h)
       ELSE IF Head(r.rest) = "]"
            THEN LET a == Alloc(r.heap, ArrayObj(Append(acc, r.val)))
                 IN ParseOk(a.ref, Tail(r.rest), a.heap)
       ELSE IF Head(r.rest) = ","
            THEN ParseElems(Tail(r.rest), r.heap, Append(acc, r.val))
       ELSE ParseFail(h)

\* after "{" or after a ",": "name" : value, then "," or "}"
ParseFields(toks, h, acc) ==
    IF toks = <<>> \/ Head(toks) # Q THEN ParseFail(h)
    ELSE LET n == ParseString(Tail(toks), <<>>)
         IN IF ~n.ok \/ n.rest = <<>> \/ Head(n.rest) # ":" THEN ParseFail(h)
            ELSE LET r == ParseValue(Tail(n.rest), h)
                 IN IF ~r.ok \/ r.rest = <<>> THEN ParseFail(h)
                    ELSE IF Head(r.rest) = "}"
                         THEN LET a == Alloc(r.heap,
                                     PlainObj(PutField(acc, n.str, r.val)))
                              IN ParseOk(a.ref, Tail(r.rest), a.heap)
                    ELSE IF Head(r.rest) = ","
                         THEN ParseFields(Tail(r.rest), r.heap,
                                          PutField(acc, n.str, r.val))
                    ELSE ParseFail(h)

ParseValue(toks, h) ==
    IF toks = <<>> THEN ParseFail(h)
    ELSE LET t == Head(toks)
             rest == Tail(toks)
         IN CASE t = "null" -> ParseOk(Null, rest, h)
              [] t = "true" -> ParseOk(Bool(TRUE), rest, h)
              [] t = "false" -> ParseOk(Bool(FALSE), rest, h)
              [] IsDigitAtom(t) -> ParseOk(Num(AtomNum(t)), rest, h)
              [] t = Q ->
                    LET s == ParseString(rest, <<>>)
                    IN IF s.ok THEN ParseOk(Str(s.str), s.rest, h) ELSE ParseFail(h)
              [] t = "[" ->
                    IF rest # <<>> /\ Head(rest) = "]"
                    THEN LET a == Alloc(h, ArrayObj(<<>>))
                         IN ParseOk(a.ref, Tail(rest), a.heap)
                    ELSE ParseElems(rest, h, <<>>)
              [] t = "{" ->
                    IF rest # <<>> /\ Head(rest) = "}"
                    THEN LET a == Alloc(h, PlainObj(<<>>))
                         IN ParseOk(a.ref, Tail(rest), a.heap)
                    ELSE ParseFields(rest, h, <<>>)
              [] OTHER -> ParseFail(h)

\* JSON.parse(text): the value and the heap holding what it allocated; it
\* throws (ok = FALSE) on text that is not one JSON value
JSONparse(text, h) ==
    LET r == ParseValue(text, h)
    IN IF r.ok /\ r.rest = <<>> THEN r ELSE ParseFail(h)

(***************************************************************************)
(* The store.                                                              *)
(***************************************************************************)
DefaultKeys == {"theme", "notifications", "sidebarOpen", "loading", "errors"}
Keys == DefaultKeys \cup {"custom"}

\* this.state[key] of a key the object does not have
NoProp == <<"absent", 0>>

(***************************************************************************)
(* Listener callbacks are caller code.  The model knows them by what they  *)
(* do when invoked: return, throw, write a constant to a key of the store  *)
(* (a reentrant set), or call the first or the second handle that          *)
(* subscribe returned.  Callbacks 3 and 7 are two functions that write the *)
(* same constant.                                                          *)
(***************************************************************************)
Callbacks == 1..6
CallbackBody(cb) ==
    CASE cb = 1 -> [kind |-> "return", key |-> "", val |-> Undefined, handle |-> 0]
      [] cb = 2 -> [kind |-> "throw", key |-> "", val |-> Undefined, handle |-> 0]
      [] cb = 3 -> [kind |-> "set", key |-> "sidebarOpen", val |-> Bool(FALSE),
                    handle |-> 0]
      [] cb = 4 -> [kind |-> "set", key |-> "sidebarOpen", val |-> Bool(TRUE),
                    handle |-> 0]
      [] cb = 5 -> [kind |-> "unsubscribe", key |-> "", val |-> Undefined,
                    handle |-> 1]
      [] cb = 6 -> [kind |-> "unsubscribe", key |-> "", val |-> Undefined,
                    handle |-> 2]
      [] OTHER -> [kind |-> "set", key |-> "sidebarOpen", val |-> Bool(FALSE),
                   handle |-> 0]

VARIABLES
    state,      \* this.state: key -> value, NoProp for a key it does not have
    listeners,  \* this.listeners: key -> [has, entries]; entries is the Set's
                \* list in insertion order, 0 marking an entry deleted while
                \* a forEach over the Set is running
    heap,       \* the arrays and objects allocated so far
    storage,    \* localStorage: key -> Null (no item) or a string
    handles,    \* the unsubscribe closures returned so far: <<key, callback>>
    called,     \* the handles that have been invoked at least once
    stack,      \* activations of notifyListeners / bulk set in progress
    op,         \* the public operation in progress or last completed
    log,        \* the writes and listener calls of that operation, in order
    persisted,  \* key -> the value persist(key) last encoded into storage
    auth,       \* the Auth object: [token, user]
    api,        \* api.headers: the Authorization entry, NoProp when it has
                \* none (Content-Type and Accept never change)
    items,      \* localStorage: the items under Auth's two keys
    pending,    \* the calls of async methods of Auth that await their
                \* response, where they are kept track of
    last,       \* the Auth operation that finished last, and how
    loggedOut,  \* logout has cleared the session, and no login, register or
                \* refreshToken started after it has succeeded since
    stale,      \* the methods that were awaiting when logout cleared it
    modal,      \* a Modal instance and what its cleanups have done
    confirm,    \* the modal of Modal.confirm and the promise it returned
    form        \* a FormHandler and what its last submit event did

authVars == <<auth, api, items, pending, last, loggedOut, stale>>

uiVars == <<modal, confirm, form>>

vars == <<state, listeners, heap, storage, handles, called, stack, op, log,
          persisted, authVars, uiVars>>

\* this.state[key]
ReadProp(st, key) == IF st[key] = NoProp THEN Undefined ELSE st[key]

\* get(key): the value of the key, or the whole mapping when the key is falsy
get(st, key) == IF key # "" THEN ReadProp(st, key) ELSE <<"state", st>>

NoSet == [has |-> FALSE, entries |-> <<>>]
Live(entries) == {entries[i] : i \in 1..Len(entries)} \ {0}
Compact(entries) == SelectSeq(entries, LAMBDA e : e # 0)

\* the first position >= i of entries that holds a callback, 0 if none
NextLive(entries, i) ==
    LET js == {j \in i..Len(entries) : entries[j] # 0}
    IN IF js = {} THEN 0 ELSE CHOOSE j \in js : \A m \in js : j <= m

NotifyFrames(stk) == {i \in 1..Len(stk) : stk[i].kind = "notify"}
ActiveOn(stk, key) == \E i \in NotifyFrames(stk) : stk[i].key = key

\* log entries
\* log entries: a write of setState (with the callbacks registered on the
\* key at that moment) and a call of a listener (with its arguments and the
\* log position fid of the write it is notified of)
WriteEvent(lst, key, new, old) ==
    [ev |-> "write", cb |-> 0, key |-> key, new |-> new, old |-> old, fid |-> 0,
     subs |-> Live(lst[key].entries)]
CallEvent(cb, f) ==
    [ev |-> "call", cb |-> cb, key |-> f.key, new |-> f.newValue,
     old |-> f.oldValue, fid |-> f.fid, subs |-> {}]

\* op: the operation's name, key and argument, whether it has returned,
\* whether it raised, what it returned, whether its storage access threw
OpRecord(name, key, val, done, raised, ret) ==
    [name |-> name, key |-> key, val |-> val, done |-> done,
     raised |-> raised, ret |-> ret, fault |-> FALSE]

(***************************************************************************)
(* setState(key, value): the write and the change test.                    *)
(***************************************************************************)
\* setState without its assignment
setState_noWrite(st, key, value) ==
    LET oldValue == ReadProp(st, key)
    IN [state |-> st,
        changed |-> StrictNotEqual(oldValue, value),
        newValue |-> value,
        oldValue |-> oldValue]

setState(st, key, value) ==
    LET oldValue == ReadProp(st, key)
    IN [state |-> [st EXCEPT ![key] = value],
        changed |-> StrictNotEqual(oldValue, value),
        newValue |-> value,
        oldValue |-> oldValue]

\* a notification that hands the callbacks (oldValue, newValue)
notifyListeners_swapped(lst, key, newValue, oldValue, fid) ==
    IF lst[key].has
    THEN <<[kind |-> "notify", key |-> key, newValue |-> oldValue,
            oldValue |-> newValue, idx |-> 1, fid |-> fid,
            start |-> Live(lst[key].entries), gone |-> {}, rest |-> <<>>]>>
    ELSE <<>>

\* notifyListeners(key, newValue, oldValue): the activation that runs the
\* forEach over the key's Set, none when the key has no Set
notifyListeners(lst, key, newValue, oldValue, fid) ==
    IF lst[key].has
    THEN <<[kind |-> "notify", key |-> key, newValue |-> newValue,
            oldValue |-> oldValue, idx |-> 1, fid |-> fid,
            start |-> Live(lst[key].entries), gone |-> {}, rest |-> <<>>]>>
    ELSE <<>>

\* the activations a setState call puts on top of the stack
Notification(lst, r, key, fid) ==
    IF r.changed
    THEN notifyListeners(lst, key, r.newValue, r.oldValue, fid)
    ELSE <<>>

\* a delete that closes the gap at once, under a forEach that is running
DeleteListener_splice(lst, stk, hd) ==
    [lst EXCEPT ![hd[1]].entries = SelectSeq(@, LAMBDA e : e # hd[2])]

\* listeners.delete(callback) by the handle <<key, cb>>: the entry is
\* removed; a running forEach over that Set skips it
DeleteListener(lst, stk, hd) ==
    LET key == hd[1]
        cb == hd[2]
        marked == [i \in 1..Len(lst[key].entries) |->
                      IF lst[key].entries[i] = cb THEN 0 ELSE lst[key].entries[i]]
    IN [lst EXCEPT ![key].entries =
            IF ActiveOn(stk, key) THEN marked ELSE Compact(marked)]

\* the frames notifying hd's key note that hd's callback left the Set, and
\* how long the log was then
MarkGone(stk, lst, hd, at) ==
    [i \in 1..Len(stk) |->
        IF stk[i].kind = "notify" /\ stk[i].key = hd[1]
           /\ hd[2] \in Live(lst[hd[1]].entries)
        THEN [stk[i] EXCEPT !.gone = @ \cup {<<hd[2], at>>}]
        ELSE stk[i]]

(***************************************************************************)
(* Public operations.  Each is called when no operation is running         *)
(* (the store is used from one thread) and runs up to the first listener   *)
(* call; InvokeListener, BulkStep and Return run the rest.  op and log     *)
(* record the operation for the properties below and do not influence it.  *)
(***************************************************************************)
NoOperation == OpRecord("none", "", Undefined, TRUE, FALSE, Undefined)
Idle == stack = <<>> /\ op = NoOperation

\* the caller has looked at what the operation did and goes on: what the
\* model recorded about the operation is dropped
CallerResumes ==
    /\ stack = <<>>
    /\ op # NoOperation
    /\ op' = NoOperation
    /\ log' = <<>>
    /\ UNCHANGED <<state, listeners, heap, storage, handles, called, stack,
                   persisted, authVars, uiVars>>

\* this.set(key, value) with a string key, called by the operation `name`
CallSet(name, arg, h, key, value, ret) ==
    LET r == setState(state, key, value)
        stk == Notification(listeners, r, key, 1)
    IN /\ state' = r.state
       /\ heap' = h
       /\ stack' = stk
       /\ log' = <<WriteEvent(listeners, key, value, ReadProp(state, key))>>
       /\ op' = OpRecord(name, key, arg, stk = <<>>, FALSE, ret)

\* an operation that returns at once, leaving state and listeners alone
NoOp(name, key, arg, raised, ret) ==
    /\ op' = OpRecord(name, key, arg, TRUE, raised, ret)
    /\ log' = <<>>
    /\ UNCHANGED <<state, heap, stack>>

\* set(key, value)
State_set(h, key, value) ==
    /\ Idle
    /\ CallSet("set", value, h, key, value, Undefined)
    /\ UNCHANGED <<listeners, storage, handles, called, persisted, authVars, uiVars>>

\* set(patch): patch is Null or a sequence of <<key, value>> entries
State_setBulk(h, patch) ==
    /\ Idle
    /\ IF patch = Null
       THEN \* Object.entries(null) throws a TypeError
            NoOp("setBulk", "", Undefined, TRUE, Undefined)
       ELSE /\ stack' = IF patch = <<>> THEN <<>>
                        ELSE <<[kind |-> "bulk", key |-> "", newValue |-> Undefined,
                                oldValue |-> Undefined, idx |-> 0, fid |-> 0,
                                start |-> {}, gone |-> {}, rest |-> patch]>>
            /\ op' = OpRecord("setBulk", "", <<"patch", patch>>, patch = <<>>, FALSE,
                              Undefined)
            /\ log' = <<>>
            /\ heap' = h
            /\ UNCHANGED state
    /\ UNCHANGED <<listeners, storage, handles, called, persisted, authVars, uiVars>>

\* a subscribe that keeps the callbacks in an array and pushes every time
State_subscribe_pushes(key, cb) ==
    /\ Idle
    /\ Len(handles) < MaxHandles
    /\ listeners' = [listeners EXCEPT ![key] =
           [has |-> TRUE,
            entries |-> Append(@.entries, cb)]]
    /\ handles' = Append(handles, <<key, cb>>)
    /\ NoOp("subscribe", key, Undefined, FALSE, Num(Len(handles) + 1))
    /\ UNCHANGED <<storage, called, persisted, authVars, uiVars>>

\* subscribe(key, callback): returns the handle, here its index
State_subscribe(key, cb) ==
    /\ Idle
    /\ Len(handles) < MaxHandles
    /\ listeners' = [listeners EXCEPT ![key] =
           [has |-> TRUE,
            entries |-> IF cb \in Live(@.entries) THEN @.entries
                        ELSE Append(@.entries, cb)]]
    /\ handles' = Append(handles, <<key, cb>>)
    /\ NoOp("subscribe", key, Undefined, FALSE, Num(Len(handles) + 1))
    /\ UNCHANGED <<storage, called, persisted, authVars, uiVars>>

\* a call of the handle returned by an earlier subscribe
Unsubscribe(hd) ==
    /\ Idle
    /\ hd \in 1..Len(handles)
    /\ listeners' = DeleteListener(listeners, stack, handles[hd])
    /\ called' = called \cup {hd}
    /\ NoOp("unsubscribe", handles[hd][1], Num(hd), FALSE, Undefined)
    /\ UNCHANGED <<storage, handles, persisted, authVars, uiVars>>

\* a toggle that switches the flag on instead of negating it
State_toggle_setsTrue(key) ==
    /\ Idle
    /\ IF IsBoolean(ReadProp(state, key))
       THEN CallSet("toggle", Undefined, heap, key, Bool(TRUE), Undefined)
       ELSE NoOp("toggle", key, Undefined, FALSE, Undefined)
    /\ UNCHANGED <<listeners, storage, handles, called, persisted, authVars, uiVars>>

\* toggle(key)
State_toggle(key) ==
    /\ Idle
    /\ IF IsBoolean(ReadProp(state, key))
       THEN CallSet("toggle", Undefined, heap, key,
                    Bool(~Payload(ReadProp(state, key))), Undefined)
       ELSE NoOp("toggle", key, Undefined, FALSE, Undefined)
    /\ UNCHANGED <<listeners, storage, handles, called, persisted, authVars, uiVars>>

(***************************************************************************)
(* Array helpers.  Predicates are caller code, known by what they do.      *)
(***************************************************************************)
Predicates == {"isOne", "idIsOne", "throws"}

\* obj[name] of a plain object's field list
FieldOf(fields, name) ==
    IF \E i \in 1..Len(fields) : fields[i][1] = name
    THEN fields[CHOOSE i \in 1..Len(fields) : fields[i][1] = name][2]
    ELSE Undefined

\* predicate(item): "true", "false" or "throw"
ApplyPredicate(pred, h, item) ==
    CASE pred = "isOne" ->                      \* item => item === 1
            IF item = Num(1) THEN "true" ELSE "false"
      [] pred = "idIsOne" ->                    \* item => item.id === 1
            IF item \in {Null, Undefined} THEN "throw"
            ELSE IF IsRef(item) /\ h[Payload(item)][1] = "object"
                    /\ FieldOf(h[Payload(item)][2], <<"id">>) = Num(1)
                 THEN "true" ELSE "false"
      [] OTHER -> "throw"                       \* () => { throw ... }

\* a filter that keeps the items the predicate accepts
Filter_keepsMatches(h, elems, pred) ==
    [ok |-> \A i \in 1..Len(elems) : ApplyPredicate(pred, h, elems[i]) # "throw",
     elems |-> SelectSeq(elems, LAMBDA e : ApplyPredicate(pred, h, e) = "true")]

\* array.filter(item => !predicate(item))
RECURSIVE Filter(_, _, _)
Filter(h, elems, pred) ==
    IF elems = <<>> THEN [ok |-> TRUE, elems |-> <<>>]
    ELSE LET p == ApplyPredicate(pred, h, Head(elems))
         IN IF p = "throw" THEN [ok |-> FALSE, elems |-> <<>>]
            ELSE LET r == Filter(h, Tail(elems), pred)
                 IN IF ~r.ok THEN r
                    ELSE [ok |-> TRUE,
                          elems |-> IF p = "true" THEN r.elems
                                    ELSE <<Head(elems)>> \o r.elems]

\* the own enumerable fields an object spread copies from a value
SpreadFields(h, v) ==
    IF IsRef(v)
    THEN LET cell == h[Payload(v)]
         IN IF cell[1] = "object" THEN cell[2]
            ELSE [i \in 1..Len(cell[2]) |-> <<<<NumAtom(i - 1)>>, cell[2][i]>>]
    ELSE IF Tag(v) = "string"
         THEN [i \in 1..Len(Payload(v)) |->
                  <<<<NumAtom(i - 1)>>, Str(<<Payload(v)[i]>>)>>]
    ELSE <<>>

\* { ...item, ...updates }
RECURSIVE MergeFields(_, _)
MergeFields(fields, more) ==
    IF more = <<>> THEN fields
    ELSE MergeFields(PutField(fields, Head(more)[1], Head(more)[2]), Tail(more))

\* array.map(item => predicate(item) ? { ...item, ...updates } : item)
RECURSIVE MapUpdate(_, _, _, _)
MapUpdate(h, elems, pred, updates) ==
    IF elems = <<>> THEN [ok |-> TRUE, heap |-> h, elems |-> <<>>]
    ELSE LET p == ApplyPredicate(pred, h, Head(elems))
         IN IF p = "throw" THEN [ok |-> FALSE, heap |-> h, elems |-> <<>>]
            ELSE LET a == Alloc(h, PlainObj(MergeFields(SpreadFields(h, Head(elems)),
                                                        SpreadFields(h, updates))))
                     h1 == IF p = "true" THEN a.heap ELSE h
                     e1 == IF p = "true" THEN a.ref ELSE Head(elems)
                     r == MapUpdate(h1, Tail(elems), pred, updates)
                 IN IF ~r.ok THEN [ok |-> FALSE, heap |-> h, elems |-> <<>>]
                    ELSE [ok |-> TRUE, heap |-> r.heap, elems |-> <<e1>> \o r.elems]

\* an addItem that starts a new array under a key that has no value
State_addItem_createsArray(h, key, item) ==
    /\ Idle
    /\ IF IsArray(h, ReadProp(state, key))
       THEN LET a == Alloc(h, ArrayObj(Append(h[Payload(ReadProp(state, key))][2], item)))
            IN /\ Len(a.heap) <= MaxHeap
               /\ CallSet("addItem", item, a.heap, key, a.ref, Undefined)
       ELSE IF ReadProp(state, key) = Undefined
       THEN LET a == Alloc(h, ArrayObj(<<item>>))
            IN /\ Len(a.heap) <= MaxHeap
               /\ CallSet("addItem", item, a.heap, key, a.ref, Undefined)
       ELSE /\ NoOp("addItem", key, item, FALSE, Undefined)
    /\ UNCHANGED <<listeners, storage, handles, called, persisted, authVars, uiVars>>

\* addItem(key, item); h is the heap once the caller has built item
State_addItem(h, key, item) ==
    /\ Idle
    /\ IF IsArray(h, ReadProp(state, key))
       THEN LET a == Alloc(h, ArrayObj(Append(h[Payload(ReadProp(state, key))][2], item)))
            IN /\ Len(a.heap) <= MaxHeap
               /\ CallSet("addItem", item, a.heap, key, a.ref, Undefined)
       ELSE /\ NoOp("addItem", key, item, FALSE, Undefined)
    /\ UNCHANGED <<listeners, storage, handles, called, persisted, authVars, uiVars>>

\* removeItem(key, predicate)
State_removeItem(key, pred) ==
    /\ Idle
    /\ IF IsArray(heap, ReadProp(state, key))
       THEN LET r == Filter(heap, heap[Payload(ReadProp(state, key))][2], pred)
                a == Alloc(heap, ArrayObj(r.elems))
            IN IF r.ok
               THEN /\ Len(a.heap) <= MaxHeap
                    /\ CallSet("removeItem", Undefined, a.heap, key, a.ref, Undefined)
               ELSE \* the predicate's error leaves filter and removeItem
                    NoOp("removeItem", key, Undefined, TRUE, Undefined)
       ELSE NoOp("removeItem", key, Undefined, FALSE, Undefined)
    /\ UNCHANGED <<listeners, storage, handles, called, persisted, authVars, uiVars>>

\* updateItem(key, predicate, updates)
State_updateItem(h, key, pred, updates) ==
    /\ Idle
    /\ IF IsArray(h, ReadProp(state, key))
       THEN LET r == MapUpdate(h, h[Payload(ReadProp(state, key))][2], pred, updates)
                a == Alloc(r.heap, ArrayObj(r.elems))
            IN IF r.ok
               THEN /\ Len(a.heap) <= MaxHeap
                    /\ CallSet("updateItem", updates, a.heap, key, a.ref, Undefined)
               ELSE \* the predicate's error leaves map and updateItem
                    NoOp("updateItem", key, updates, TRUE, Undefined)
       ELSE NoOp("updateItem", key, updates, FALSE, Undefined)
    /\ UNCHANGED <<listeners, storage, handles, called, persisted, authVars, uiVars>>

(***************************************************************************)
(* Persistence.  A localStorage call may throw (storage disabled, quota):  *)
(* `fails` says whether this call's storage access does.                   *)
(***************************************************************************)
\* persist(key)
State_persist(key, fails) ==
    /\ Idle
    /\ IF fails
       THEN UNCHANGED <<storage, persisted>>        \* caught and logged
       ELSE /\ storage' = [storage EXCEPT ![key] =
                   Str(ToStorageString(JSONstringify(heap, ReadProp(state, key))))]
            /\ persisted' = [persisted EXCEPT ![key] = ReadProp(state, key)]
    /\ op' = [OpRecord("persist", key, Undefined, TRUE, FALSE, Undefined)
                  EXCEPT !.fault = fails]
    /\ log' = <<>>
    /\ UNCHANGED <<state, heap, stack, listeners, handles, called, authVars, uiVars>>

\* a loadPersisted without its try: only a missing item yields null
State_loadPersisted_uncaught(key, fails) ==
    /\ Idle
    /\ LET value == storage[key]
           parsed == JSONparse(Payload(value), heap)
       IN IF ~fails /\ Truthy(value) /\ parsed.ok
          THEN /\ Len(parsed.heap) <= MaxHeap
               /\ CallSet("loadPersisted", Undefined, parsed.heap, key, parsed.val,
                          parsed.val)
          ELSE /\ op' = [OpRecord("loadPersisted", key, Undefined, TRUE,
                                  fails \/ Truthy(value), Null)
                             EXCEPT !.fault = fails]
               /\ log' = <<>>
               /\ UNCHANGED <<state, heap, stack>>
    /\ UNCHANGED <<listeners, storage, handles, called, persisted, authVars, uiVars>>

\* loadPersisted(key)
State_loadPersisted(key, fails) ==
    /\ Idle
    /\ LET value == storage[key]
           parsed == JSONparse(Payload(value), heap)
       IN IF ~fails /\ Truthy(value) /\ parsed.ok
          THEN /\ Len(parsed.heap) <= MaxHeap
               /\ CallSet("loadPersisted", Undefined, parsed.heap, key, parsed.val,
                          parsed.val)
          ELSE \* no item, or getItem / JSON.parse threw and was caught
               /\ op' = [OpRecord("loadPersisted", key, Undefined, TRUE, FALSE, Null)
                             EXCEPT !.fault = fails]
               /\ log' = <<>>
               /\ UNCHANGED <<state, heap, stack>>
    /\ UNCHANGED <<listeners, storage, handles, called, persisted, authVars, uiVars>>

(***************************************************************************)
(* Construction.                                                           *)
(***************************************************************************)
\* { ...initialState, ...defaults }: the defaults over the seed's entries
Overlay_defaultsWin(st, seed) ==
    [k \in DOMAIN st |->
        IF st[k] = NoProp /\ \E i \in 1..Len(seed) : seed[i][1] = k
        THEN seed[CHOOSE i \in 1..Len(seed) : seed[i][1] = k][2]
        ELSE st[k]]

\* { ...defaults, ...initialState }: the seed's entries over the defaults
RECURSIVE Overlay(_, _)
Overlay(st, seed) ==
    IF seed = <<>> THEN st
    ELSE Overlay([st EXCEPT ![Head(seed)[1]] = Head(seed)[2]], Tail(seed))

\* localStorage.getItem('theme') || 'light'
ThemeDefault(item) == IF Truthy(item) THEN item ELSE Str(<<"light">>)

\* an init that also starts from an empty listener map
init_newListeners(name, h, seed, fails) ==
    /\ Idle
    /\ IF fails
       THEN \* getItem throws while the object literal is evaluated
            /\ op' = [OpRecord(name, "", Undefined, TRUE, TRUE, Undefined)
                          EXCEPT !.fault = TRUE]
            /\ log' = <<>>
            /\ UNCHANGED <<state, heap, stack>>
       ELSE LET a1 == Alloc(h, ArrayObj(<<>>))
                a2 == Alloc(a1.heap, PlainObj(<<>>))
                defaults == [k \in Keys |->
                    CASE k = "theme" -> ThemeDefault(storage["theme"])
                      [] k = "notifications" -> a1.ref
                      [] k = "sidebarOpen" -> Bool(TRUE)
                      [] k = "loading" -> Bool(FALSE)
                      [] k = "errors" -> a2.ref
                      [] OTHER -> NoProp]
            IN /\ Len(a2.heap) <= MaxHeap
               /\ state' = Overlay(defaults, IF seed = Null THEN <<>> ELSE seed)
               /\ heap' = a2.heap
               /\ op' = OpRecord(name, "", Undefined, TRUE, FALSE, Undefined)
               /\ log' = <<>>
               /\ UNCHANGED stack
    /\ listeners' = [k \in Keys |-> NoSet]
    /\ UNCHANGED <<storage, handles, called, persisted, authVars, uiVars>>

\* init(initialState): seed is Null or a sequence of <<key, value>> entries
init(name, h, seed, fails) ==
    /\ Idle
    /\ IF fails
       THEN \* getItem throws while the object literal is evaluated
            /\ op' = [OpRecord(name, "", Undefined, TRUE, TRUE, Undefined)
                          EXCEPT !.fault = TRUE]
            /\ log' = <<>>
            /\ UNCHANGED <<state, heap, stack>>
       ELSE LET a1 == Alloc(h, ArrayObj(<<>>))
                a2 == Alloc(a1.heap, PlainObj(<<>>))
                defaults == [k \in Keys |->
                    CASE k = "theme" -> ThemeDefault(storage["theme"])
                      [] k = "notifications" -> a1.ref
                      [] k = "sidebarOpen" -> Bool(TRUE)
                      [] k = "loading" -> Bool(FALSE)
                      [] k = "errors" -> a2.ref
                      [] OTHER -> NoProp]
            IN /\ Len(a2.heap) <= MaxHeap
               /\ state' = Overlay(defaults, IF seed = Null THEN <<>> ELSE seed)
               /\ heap' = a2.heap
               /\ op' = OpRecord(name, "", Undefined, TRUE, FALSE, Undefined)
               /\ log' = <<>>
               /\ UNCHANGED stack
    /\ UNCHANGED <<listeners, storage, handles, called, persisted, authVars, uiVars>>

State_init(h, seed, fails) == init("init", h, seed, fails)

\* reset(initialState)
State_reset(h, seed, fails) == init("reset", h, seed, fails)

\* new State() in a new page session: an empty state and no listeners; the
\* storage stays.  The cells of the previous session stay in the heap,
\* unreachable.
State_constructor ==
    /\ Idle
    /\ state' = [k \in Keys |-> NoProp]
    /\ listeners' = [k \in Keys |-> NoSet]
    /\ handles' = <<>>
    /\ called' = {}
    /\ op' = OpRecord("constructor", "", Undefined, TRUE, FALSE, Undefined)
    /\ log' = <<>>
    /\ UNCHANGED <<heap, storage, stack, persisted, authVars, uiVars>>

\* another script of the page stores a string under a key
Storage_setItem(key, text) ==
    /\ Idle
    /\ storage' = [storage EXCEPT ![key] = Str(text)]
    /\ persisted' = [persisted EXCEPT ![key] = NoProp]
    /\ UNCHANGED <<state, listeners, heap, handles, called, stack, op, log,
                   authVars, uiVars>>

(***************************************************************************)
(* The running operation: one step per listener call.                      *)
(***************************************************************************)
Top == stack[Len(stack)]
Below == SubSeq(stack, 1, Len(stack) - 1)

\* a call that is put off until its caller's forEach is through
Push_deferred(stk, frames) == frames \o stk

\* a call made by the running activation: the callee's activation goes on
\* top of it and runs to its return first
Push(stk, frames) == stk \o frames

\* the forEach moves on after the callback at position j
Advance(stk, j) == [stk EXCEPT ![Len(stk)].idx = j + 1]

\* a forEach body without the try: the error unwinds every activation
catchListenerError_uncaught(stk, j) == [stack |-> <<>>, raised |-> TRUE]

\* try { callback(newValue, oldValue) } catch (error) { console.error(...) }:
\* the error of the callback at position j is caught and the forEach goes on
catchListenerError(stk, j) == [stack |-> Advance(stk, j), raised |-> FALSE]

\* the forEach body of notifyListeners, for the next callback of the Set
InvokeListener ==
    /\ stack # <<>>
    /\ Top.kind = "notify"
    /\ LET entries == listeners[Top.key].entries
           j == NextLive(entries, Top.idx)
       IN /\ j # 0
          /\ LET cb == entries[j]
                 body == CallbackBody(cb)
                 called1 == Append(log, CallEvent(cb, Top))
             IN CASE body.kind = "return" ->
                       /\ stack' = Advance(stack, j)
                       /\ log' = called1
                       /\ UNCHANGED <<state, listeners, called, op>>
                  [] body.kind = "set" ->
                       LET r == setState(state, body.key, body.val)
                           nested == Notification(listeners, r, body.key,
                                                  Len(called1) + 1)
                       IN /\ nested # <<>> => Cardinality(NotifyFrames(stack)) < MaxDepth
                          /\ state' = r.state
                          /\ stack' = Push(Advance(stack, j), nested)
                          /\ log' = Append(called1,
                                 WriteEvent(listeners, body.key, body.val,
                                            ReadProp(state, body.key)))
                          /\ UNCHANGED <<listeners, called, op>>
                  [] body.kind = "unsubscribe" /\ body.handle \in 1..Len(handles) ->
                       LET hd == handles[body.handle]
                       IN /\ listeners' = DeleteListener(listeners, stack, hd)
                          /\ called' = called \cup {body.handle}
                          /\ stack' = MarkGone(Advance(stack, j), listeners, hd,
                                                Len(called1))
                          /\ log' = called1
                          /\ UNCHANGED <<state, op>>
                  [] OTHER ->
                       \* the callback throws (or calls a handle it never got)
                       LET c == catchListenerError(stack, j)
                       IN /\ stack' = c.stack
                          /\ op' = [op EXCEPT !.raised = c.raised,
                                              !.done = c.stack = <<>>]
                          /\ log' = called1
                          /\ UNCHANGED <<state, listeners, called>>
    /\ UNCHANGED <<heap, storage, handles, persisted, authVars, uiVars>>

\* a bulk set that notifies for every entry, changed or not
BulkStep_alwaysNotifies ==
    /\ stack # <<>>
    /\ Top.kind = "bulk"
    /\ Top.rest # <<>>
    /\ LET key == Head(Top.rest)[1]
           value == Head(Top.rest)[2]
           r == setState(state, key, value)
       IN /\ state' = r.state
          /\ stack' = Append(Below, [Top EXCEPT !.rest = Tail(@)])
                      \o notifyListeners(listeners, key, r.newValue, r.oldValue,
                                         Len(log) + 1)
          /\ log' = Append(log, WriteEvent(listeners, key, value,
                                            ReadProp(state, key)))
    /\ UNCHANGED <<listeners, heap, storage, handles, called, op, persisted, authVars, uiVars>>

\* set(patch): the next entry of Object.entries(patch).forEach
BulkStep ==
    /\ stack # <<>>
    /\ Top.kind = "bulk"
    /\ Top.rest # <<>>
    /\ LET key == Head(Top.rest)[1]
           value == Head(Top.rest)[2]
           r == setState(state, key, value)
       IN /\ state' = r.state
          /\ stack' = Append(Below, [Top EXCEPT !.rest = Tail(@)])
                      \o Notification(listeners, r, key, Len(log) + 1)
          /\ log' = Append(log, WriteEvent(listeners, key, value,
                                            ReadProp(state, key)))
    /\ UNCHANGED <<listeners, heap, storage, handles, called, op, persisted, authVars, uiVars>>

\* a forEach that has visited its whole Set (or all entries of the patch)
\* returns to its caller; the operation is done when the stack is empty
Return ==
    /\ stack # <<>>
    /\ IF Top.kind = "notify"
       THEN /\ NextLive(listeners[Top.key].entries, Top.idx) = 0
            /\ listeners' = IF ActiveOn(Below, Top.key) THEN listeners
                            ELSE [listeners EXCEPT ![Top.key].entries = Compact(@)]
       ELSE /\ Top.rest = <<>>
            /\ UNCHANGED listeners
    /\ stack' = Below
    /\ op' = [op EXCEPT !.done = (Below = <<>>)]
    /\ UNCHANGED <<state, heap, storage, handles, called, log, persisted, authVars, uiVars>>

(***************************************************************************)
(* The API client and the session (api.js).  Api keeps the headers of the  *)
(* requests; Auth keeps the token and the user in memory and in            *)
(* localStorage and sets the Authorization header of the client.           *)
(***************************************************************************)
tokenKey == "cms_auth_token"
userKey == "cms_user"
AuthKeys == {tokenKey, userKey}

\* String(v), as a template literal and localStorage.setItem apply it
JSString(v) ==
    CASE Tag(v) = "string" -> Payload(v)
      [] Tag(v) = "undefined" -> <<"undefined">>
      [] Tag(v) = "null" -> <<"null">>
      [] Tag(v) = "boolean" -> IF Payload(v) THEN <<"true">> ELSE <<"false">>
      [] Tag(v) = "number" -> <<NumAtom(Payload(v))>>

\* a setToken that leaves the header in place when the token is falsy
setToken_keepsHeader(headers, token) ==
    IF Truthy(token)
    THEN [headers EXCEPT !.Authorization = Str(<<"Bearer ">> \o JSString(token))]
    ELSE headers

\* api.setToken(token)
setToken(headers, token) ==
    IF Truthy(token)
    THEN [headers EXCEPT !.Authorization = Str(<<"Bearer ">> \o JSString(token))]
    ELSE [headers EXCEPT !.Authorization = NoProp]

\* what a session call works on; raised: a call on localStorage threw
Session == [auth |-> auth, api |-> api, items |-> items, raised |-> FALSE]

\* where localStorage.setItem throws (the quota is exceeded) inside
\* setSession: nowhere, at the first call, at the second; getItem and
\* removeItem do not throw once the module has loaded
Faults == 0..2

\* setSession(token, user)
setSession(w, token, user, fault) ==
    LET a == [token |-> token, user |-> user]
        i1 == [w.items EXCEPT ![tokenKey] = Str(JSString(token))]
        i2 == [i1 EXCEPT ![userKey] = Str(JSString(JSONstringify(heap, user)))]
    IN CASE fault = 1 -> [w EXCEPT !.auth = a, !.raised = TRUE]
         [] fault = 2 -> [w EXCEPT !.auth = a, !.items = i1, !.raised = TRUE]
         [] OTHER -> [auth |-> a, api |-> setToken(w.api, token), items |-> i2,
                      raised |-> FALSE]

\* a clearSession that leaves the two items in localStorage
clearSession_keepsItems(w) ==
    [auth |-> [token |-> Null, user |-> Null], api |-> setToken(w.api, Null),
     items |-> w.items, raised |-> FALSE]

\* clearSession()
clearSession(w) ==
    [auth |-> [token |-> Null, user |-> Null],
     api |-> setToken(w.api, Null),
     items |-> [w.items EXCEPT ![tokenKey] = Null, ![userKey] = Null],
     raised |-> FALSE]

\* isAuthenticated()
isAuthenticated(a) == Truthy(a.token)

\* getUser()
getUser(a) == a.user

\* the listener of the 'unauthorized' event (initEventListeners): it clears
\* the session and asks for the login page
unauthorized(w) == clearSession(w)

\* the tokens and users a caller or a response supplies: strings, the empty
\* string, and nothing (a response without the field)
Tokens == {Str(<<"t1">>), Str(<<"t2">>), Str(<<>>), Undefined}
Users == {Str(<<"ann">>), Undefined}

\* what fetch settles with: a network failure (status 0), or a response
\* with an HTTP status and a body that is not JSON ("text"), the JSON null,
\* or a JSON object with the fields token and user
Responses ==
    [status : {0}, body : {"none"}, token : {Undefined}, user : {Undefined}]
        \cup [status : {200, 401, 500}, body : {"text", "null"},
              token : {Undefined}, user : {Undefined}]
        \cup [status : {200}, body : {"object"}, token : Tokens, user : Users]
        \cup [status : {401, 500}, body : {"object"}, token : {Undefined},
              user : {Undefined}]

\* an error value: its constructor's name, and its status property (0 when
\* it has none)
Err(name, status) == [name |-> name, status |-> status]
NoError == Err("none", 0)

\* response.ok
ResponseOk(r) == r.status \in 200..299

\* handleResponse(response): response.json() rejects on a body that is not
\* JSON; data.message of the JSON null is a TypeError; data is the response
\* read as its parsed body
handleResponse(r) ==
    IF r.body = "text"
    THEN [rejected |-> TRUE, error |-> Err("SyntaxError", 0), data |-> r]
    ELSE IF ~ResponseOk(r)
    THEN [rejected |-> TRUE,
          error |-> IF r.body = "null" THEN Err("TypeError", 0)
                    ELSE Err("Object", r.status),
          data |-> r]
    ELSE [rejected |-> FALSE, error |-> NoError,
          data |-> r]

\* the data of a response is the JSON null
IsNull(data) == data.body = "null"

\* request(endpoint, options), from the settling of fetch on: what the
\* promise settles with, and how many 'unauthorized' events were dispatched
request(r) ==
    LET h == IF r.status = 0
             THEN [rejected |-> TRUE, error |-> Err("TypeError", 0),
                   data |-> r]
             ELSE handleResponse(r)
    IN [rejected |-> h.rejected, error |-> h.error, data |-> h.data,
        dispatched |-> IF h.rejected /\ h.error.status = 401 THEN 1 ELSE 0]

AsyncMethods == {"login", "register", "logout", "refreshToken", "updateProfile"}

\* the module was loaded: the singleton exists and listens for 'unauthorized'
Loaded == ~(last.name = "constructor" /\ ~last.completed)

\* the session when the promise of request has settled with q: the
\* 'unauthorized' listener has run if the event was dispatched
AfterRequest(q) == IF q.dispatched > 0 THEN unauthorized(Session) ELSE Session

\* the variables after an operation of Auth that ends with the session w;
\* error is what it threw or rejected with, q what its request settled with
Finish(w, name, error, q) ==
    /\ auth' = w.auth
    /\ api' = w.api
    /\ items' = w.items
    /\ last' = [name |-> name, completed |-> error = NoError, error |-> error,
                dispatched |-> q.dispatched]
    /\ UNCHANGED <<state, listeners, heap, storage, handles, called, stack, op,
                   log, persisted, uiVars>>

\* no request was made
NoRequest == [rejected |-> FALSE, error |-> NoError, dispatched |-> 0]

\* the error of a session call that threw
QuotaError(w) == IF w.raised THEN Err("QuotaExceededError", 0) ELSE NoError

\* a page load: new Api(), then new Auth() over the localStorage the
\* sessions before left; what was awaited in the page before is gone
Auth_constructor(fails) ==
    LET fresh == [Authorization |-> NoProp]
        token == items[tokenKey]
        text == JSString(items[userKey])
        user == JSONparse(text, heap)
    IN /\ pending' = {}
       /\ stale' = {}
       /\ UNCHANGED loggedOut
       /\ IF fails
          THEN \* getItem throws
               Finish([auth |-> [token |-> Undefined, user |-> Undefined],
                       api |-> fresh, items |-> items], "constructor",
                      Err("SecurityError", 0), NoRequest)
          ELSE IF ~user.ok
          THEN \* JSON.parse throws
               Finish([auth |-> [token |-> token, user |-> Undefined],
                       api |-> fresh, items |-> items], "constructor",
                      Err("SyntaxError", 0), NoRequest)
          ELSE Finish([auth |-> [token |-> token, user |-> user.val],
                       api |-> IF Truthy(token) THEN setToken(fresh, token)
                               ELSE fresh,
                       items |-> items], "constructor", NoError, NoRequest)

\* an async method is called: it calls api.post / api.put and awaits the
\* response; the calls are kept track of where a property needs to know
\* when a call was made
Api_request(method) ==
    /\ Loaded
    /\ method \notin pending
    /\ Cardinality(pending) < MaxPending
    /\ pending' = pending \cup {method}
    /\ UNCHANGED <<state, listeners, heap, storage, handles, called, stack, op,
                   log, persisted, auth, api, items, last, loggedOut, stale,
                   uiVars>>

\* what a method that read response.token or response.user rejects with
\* when its request failed or the response is the JSON null
EarlyError(q) == IF q.rejected THEN q.error ELSE Err("TypeError", 0)

\* login(email, password), from its await on.  The call itself changes
\* nothing, so the response of a call made earlier can come at any time.
Auth_login(r) ==
    LET q == request(r)
        w0 == AfterRequest(q)
    IN /\ Loaded
       /\ IF q.rejected \/ IsNull(q.data)
          THEN \* catch: clearSession(); throw error
               Finish(clearSession(w0), "login", EarlyError(q), q)
          ELSE \E f1 \in Faults :
                  LET w1 == setSession(w0, q.data.token, q.data.user, f1)
                  IN IF w1.raised
                     THEN Finish(clearSession(w1), "login", QuotaError(w1), q)
                     ELSE Finish(w1, "login", NoError, q)

\* register(userData), from its await on
Auth_register(r) ==
    LET q == request(r)
        w0 == AfterRequest(q)
    IN /\ Loaded
       /\ IF q.rejected \/ IsNull(q.data)
          THEN Finish(w0, "register", EarlyError(q), q)
          ELSE \E f1 \in Faults :
                  LET w1 == setSession(w0, q.data.token, q.data.user, f1)
                  IN Finish(w1, "register", QuotaError(w1), q)

\* logout(), from its await on: the error of the request is logged, the
\* session cleared in any case
Auth_logout(r) ==
    LET q == request(r)
    IN /\ Loaded
       /\ Finish(clearSession(AfterRequest(q)), "logout", NoError, q)

\* refreshToken(), from its await on
Auth_refreshToken(r) ==
    LET q == request(r)
        w0 == AfterRequest(q)
    IN /\ Loaded
       /\ IF q.rejected \/ IsNull(q.data)
          THEN Finish(clearSession(w0), "refreshToken", EarlyError(q), q)
          ELSE \E f1 \in Faults :
                  LET w1 == setSession(w0, q.data.token, q.data.user, f1)
                  IN IF w1.raised
                     THEN Finish(clearSession(w1), "refreshToken",
                                 QuotaError(w1), q)
                     ELSE Finish(w1, "refreshToken", NoError, q)

\* updateProfile(userData), from its await on: the token is the one in
\* memory when the response has come
Auth_updateProfile(r) ==
    LET q == request(r)
        w0 == AfterRequest(q)
    IN /\ Loaded
       /\ IF q.rejected \/ IsNull(q.data)
          THEN Finish(w0, "updateProfile", EarlyError(q), q)
          ELSE \E f1 \in Faults :
                  LET w1 == setSession(w0, w0.auth.token, q.data.user, f1)
                  IN Finish(w1, "updateProfile", QuotaError(w1), q)

\* setSession(token, user) called from outside
Auth_setSession(token, user, fault) ==
    /\ Loaded
    /\ LET w1 == setSession(Session, token, user, fault)
       IN Finish(w1, "setSession", QuotaError(w1), NoRequest)

\* clearSession() called from outside
Auth_clearSession ==
    /\ Loaded
    /\ Finish(clearSession(Session), "clearSession", NoError, NoRequest)

\* a request that another component made through the client settles
Api_settles(r) ==
    LET q == request(r)
    IN /\ Loaded
       /\ Finish(AfterRequest(q), "request", q.error, q)

\* what logout leaves to be watched: it has cleared the session while the
\* methods of stale were awaiting their responses
TrackLogout ==
    /\ stale' = pending \ {"logout"}
    /\ loggedOut' = TRUE

\* a login, register or refreshToken that was started after the last logout
\* and succeeds ends the logged-out period
Track(method) ==
    /\ stale' = stale \ {method}
    /\ loggedOut' = IF /\ last'.completed
                       /\ method \in {"login", "register", "refreshToken"}
                       /\ method \notin stale
                    THEN FALSE ELSE loggedOut

\* the response of a call that is kept track of has come
Awaited(method) ==
    /\ method \in pending
    /\ pending' = pending \ {method}

\* neither the calls nor the logged-out period are kept track of
Untracked == UNCHANGED <<pending, loggedOut, stale>>

(***************************************************************************)
(* The modal dialog (components/modals.js).  A Modal is known by: isOpen;  *)
(* whether its overlay is a child of document.body; whether its keydown    *)
(* listener is on the document; how many cleanup closures close() has      *)
(* registered for the animationend of the closing animation; and, since    *)
(* the last open(), how many cleanups ran, how many removed the overlay,   *)
(* how many threw in removeChild, and how many called options.onClose;     *)
(* via is the kind of the last event or call that reached the modal.       *)
(***************************************************************************)
NewModal == [isOpen |-> FALSE, attached |-> FALSE, keydown |-> FALSE,
             cleanups |-> 0, runs |-> 0, removed |-> 0, failed |-> 0,
             closed |-> 0, via |-> "none"]

Via(m, kind) == [m EXCEPT !.via = kind]

\* open(content)
open(m) ==
    IF m.isOpen THEN m
    ELSE [NewModal EXCEPT !.isOpen = TRUE, !.attached = TRUE,
                          !.keydown = TRUE]

\* close(): the cleanup is a new closure at each call, so each call adds
\* one listener; isOpen stays true until a cleanup has run
close(m) ==
    IF ~m.isOpen THEN m
    ELSE [m EXCEPT !.cleanups = @ + 1]

\* one cleanup closure: removeChild throws NotFoundError when the overlay
\* is not a child of document.body, and the rest of the closure is skipped
cleanup(m) ==
    IF m.attached
    THEN [m EXCEPT !.attached = FALSE, !.keydown = FALSE, !.isOpen = FALSE,
                   !.runs = @ + 1, !.removed = @ + 1, !.closed = @ + 1]
    ELSE [m EXCEPT !.runs = @ + 1, !.failed = @ + 1]

RECURSIVE RunCleanups(_, _)
RunCleanups(m, n) == IF n = 0 THEN m ELSE RunCleanups(cleanup(m), n - 1)

\* the animationend event on this.modal: every listener registered with
\* { once: true } runs, in the order of registration; a listener that
\* throws does not stop the ones after it
animationend(m) == [RunCleanups(m, m.cleanups) EXCEPT !.cleanups = 0]

Keys_pressed == {"Escape", "Enter"}

\* handleEscapeKey(event); closeOnEscape is true
handleEscapeKey(m, key) == IF key = "Escape" THEN close(m) ELSE m

ClickTargets == {"overlay", "modal"}

\* handleOverlayClick(event); closeOnOverlayClick is true
handleOverlayClick(m, target) == IF target = "overlay" THEN close(m) ELSE m

\* the keydown event on the document, for a modal
keydown(m, key) == IF m.keydown THEN handleEscapeKey(m, key) ELSE m

\* the closing animation of m is running
Leaving(m) == m.attached /\ m.cleanups > 0

\* a further close request is within the bound
MayClose(m) == m.cleanups < MaxCloses

(***************************************************************************)
(* Modal.confirm(message, options): its modal, the promise it returned     *)
(* ("none" before the first call) and, for the properties, the kind of the *)
(* first dismissal requested since the call.                               *)
(***************************************************************************)
NoConfirm == [m |-> NewModal, promise |-> "none", first |-> "none"]

\* resolve(value) of the promise executor: a settled promise stays as it is
resolve(c, value) ==
    IF c.promise = "pending" THEN [c EXCEPT !.promise = value] ELSE c

\* a dismissal of the given kind is requested
Request(c, kind) == IF c.first = "none" THEN [c EXCEPT !.first = kind] ELSE c

\* onClose: () => resolve(false), once per cleanup that reached it
confirm_animationend(c) ==
    LET m2 == animationend(c.m)
        c2 == [c EXCEPT !.m = m2]
    IN IF m2.closed > c.m.closed THEN resolve(c2, "false") ELSE c2

ModalFrame ==
    UNCHANGED <<state, listeners, heap, storage, handles, called, stack, op,
                log, persisted, authVars, form>>

\* modal.open(content)
Modal_open ==
    /\ modal' = Via(open(modal), "open")
    /\ UNCHANGED confirm
    /\ ModalFrame

\* modal.close()
Modal_close ==
    /\ MayClose(modal)
    /\ modal' = Via(close(modal), "close")
    /\ UNCHANGED confirm
    /\ ModalFrame

\* a click on the close button of the modal
CloseButton_click ==
    /\ modal.attached
    /\ MayClose(modal)
    /\ modal' = Via(close(modal), "button")
    /\ UNCHANGED confirm
    /\ ModalFrame

\* a click inside the overlay of the modal
Overlay_click(target) ==
    /\ modal.attached
    /\ MayClose(modal)
    /\ modal' = Via(handleOverlayClick(modal, target), "click")
    /\ UNCHANGED confirm
    /\ ModalFrame

\* a key is pressed: the listeners of both modals are on the document
Document_keydown(key) ==
    /\ modal.keydown \/ confirm.m.keydown
    /\ MayClose(modal)
    /\ MayClose(confirm.m)
    /\ modal' = IF modal.keydown THEN Via(keydown(modal, key), "key")
                ELSE modal
    /\ confirm' = IF confirm.m.keydown /\ key = "Escape"
                  THEN [Request(confirm, "other") EXCEPT
                            !.m = keydown(confirm.m, key)]
                  ELSE confirm
    /\ ModalFrame

\* the closing animation of the modal ends
Modal_animationend ==
    /\ Leaving(modal)
    /\ modal' = animationend(modal)
    /\ UNCHANGED confirm
    /\ ModalFrame

\* Modal.confirm(message): a new modal, opened, and a new promise
Modal_confirm ==
    /\ confirm.promise # "pending"
    /\ ~confirm.m.isOpen
    /\ confirm' = [m |-> open(NewModal), promise |-> "pending",
                   first |-> "none"]
    /\ UNCHANGED modal
    /\ ModalFrame

\* a click on the confirm button: modal.close(); resolve(true)
ConfirmButton_click ==
    /\ confirm.m.attached
    /\ MayClose(confirm.m)
    /\ confirm' = resolve([Request(confirm, "confirm") EXCEPT
                               !.m = close(confirm.m)], "true")
    /\ UNCHANGED modal
    /\ ModalFrame

\* a click on the cancel button: modal.close(); resolve(false)
CancelButton_click ==
    /\ confirm.m.attached
    /\ MayClose(confirm.m)
    /\ confirm' = resolve([Request(confirm, "other") EXCEPT
                               !.m = close(confirm.m)], "false")
    /\ UNCHANGED modal
    /\ ModalFrame

\* a click on the close button of the confirm modal, or inside its overlay
Confirm_dismiss(target) ==
    /\ confirm.m.attached
    /\ MayClose(confirm.m)
    /\ confirm' = IF target = "close"
                  THEN [Request(confirm, "other") EXCEPT
                            !.m = close(confirm.m)]
                  ELSE IF target = "overlay"
                  THEN [Request(confirm, "other") EXCEPT
                            !.m = handleOverlayClick(confirm.m, target)]
                  ELSE [confirm EXCEPT
                            !.m = handleOverlayClick(confirm.m, target)]
    /\ UNCHANGED modal
    /\ ModalFrame

\* the closing animation of the confirm modal ends
Confirm_animationend ==
    /\ Leaving(confirm.m)
    /\ confirm' = confirm_animationend(confirm)
    /\ UNCHANGED modal
    /\ ModalFrame

(***************************************************************************)
(* The form handler (components/forms.js).  The form has two named fields  *)
(* and, between them, an element without a name.  A validator is caller    *)
(* code, known by what it does with the value of the field; so is          *)
(* options.onSubmit, known by how its call ends.                           *)
(***************************************************************************)
Fields == {"email", "password"}

\* this.form.elements, in document order
Elements == <<"email", "", "password">>

FieldValues == {"", "x"}

\* value => value.length > 0; a function that throws an Error; a function
\* that throws undefined (a promise rejected without a reason)
ValidatorKinds == {"required", "throwsError", "throwsUndefined"}

\* fn(field.value, field)
Call(kind, value) ==
    CASE kind = "required" -> IF value = "" THEN "falsy" ELSE "truthy"
      [] kind = "throwsError" -> "error"
      [] OTHER -> "undefined"

\* how a call of options.onSubmit ends: it returns, it throws an Error, it
\* throws an Error with an empty message, it throws undefined
OnSubmitOutcomes == {"ok", "error", "errorNoMessage", "undefined"}

NoErrors == [n \in Fields \cup {"form"} |-> "none"]

NoEvent == [name |-> "none", before |-> [n \in Fields |-> ""],
            evaluated |-> {}, valid |-> FALSE, called |-> FALSE,
            outcome |-> "ok", reset |-> FALSE, propagated |-> FALSE]

\* the event handled or the method called last, other than a submit
Event(name) == [NoEvent EXCEPT !.name = name]

NewForm(onSubmit, resetOnSubmit) ==
    [values |-> [n \in Fields |-> ""],
     validators |-> [n \in Fields |-> <<>>],
     errors |-> NoErrors,
     options |-> [onSubmit |-> onSubmit, resetOnSubmit |-> resetOnSubmit],
     event |-> NoEvent]

\* showError(fieldName, message): this.errors.set
showError(errors, name, message) == [errors EXCEPT ![name] = message]

\* clearError(fieldName): this.errors.delete
clearError(errors, name) == [errors EXCEPT ![name] = "none"]

\* validateField(field), from validator i on: [errors, ok, threw]; threw
\* says that reading error.message of undefined threw a TypeError out of
\* the catch block
RECURSIVE ValidateFrom(_, _, _, _)
ValidateFrom(f, errors, name, i) ==
    IF i > Len(f.validators[name])
    THEN [errors |-> clearError(errors, name), ok |-> TRUE, threw |-> FALSE]
    ELSE LET r == Call(f.validators[name][i], f.values[name])
         IN CASE r = "truthy" -> ValidateFrom(f, errors, name, i + 1)
              [] r = "falsy" ->
                   [errors |-> showError(errors, name, "message"),
                    ok |-> FALSE, threw |-> FALSE]
              [] r = "error" ->
                   [errors |-> showError(errors, name, "thrown"),
                    ok |-> FALSE, threw |-> FALSE]
              [] OTHER -> [errors |-> errors, ok |-> FALSE, threw |-> TRUE]

validateField(f, errors, name) ==
    IF f.validators[name] = <<>>
    THEN [errors |-> errors, ok |-> TRUE, threw |-> FALSE]
    ELSE ValidateFrom(f, errors, name, 1)

\* the loop of validateForm from element i on; a validateField that threw
\* rejects validateForm at once
RECURSIVE ValidateElements(_, _, _, _, _)
ValidateElements(f, errors, i, isValid, evaluated) ==
    IF i > Len(Elements)
    THEN [errors |-> errors, valid |-> isValid, threw |-> FALSE,
          evaluated |-> evaluated]
    ELSE IF Elements[i] = ""
    THEN ValidateElements(f, errors, i + 1, isValid, evaluated)
    ELSE LET r == validateField(f, errors, Elements[i])
         IN IF r.threw
            THEN [errors |-> r.errors, valid |-> FALSE, threw |-> TRUE,
                  evaluated |-> evaluated \cup {Elements[i]}]
            ELSE ValidateElements(f, r.errors, i + 1, isValid /\ r.ok,
                                  evaluated \cup {Elements[i]})

\* validateForm(): clearErrors(), then every element
validateForm(f) == ValidateElements(f, NoErrors, 1, TRUE, {})

\* this.form.reset(): every field back to its default value
formReset(f) == [f EXCEPT !.values = [n \in Fields |-> ""]]

\* handleSubmit(event); outcome is how the call of onSubmit ends, if made
handleSubmit(f, outcome) ==
    LET v == validateForm(f)
        g == [f EXCEPT !.errors = v.errors]
        e == [NoEvent EXCEPT !.name = "submit", !.before = f.values,
                             !.evaluated = v.evaluated, !.valid = v.valid]
        c == [e EXCEPT !.called = TRUE, !.outcome = outcome]
        reset(h, ev) == IF f.options.resetOnSubmit
                        THEN [formReset(h) EXCEPT
                                  !.event = [ev EXCEPT !.reset = TRUE]]
                        ELSE [h EXCEPT !.event = ev]
    IN IF v.threw THEN [g EXCEPT !.event = [e EXCEPT !.propagated = TRUE]]
       ELSE IF ~v.valid THEN [g EXCEPT !.event = e]
       ELSE IF ~f.options.onSubmit THEN reset(g, e)
       ELSE CASE outcome = "ok" -> reset(g, c)
              [] outcome = "error" ->
                   [g EXCEPT !.errors = showError(@, "form", "thrown"),
                             !.event = c]
              [] outcome = "errorNoMessage" ->
                   [g EXCEPT !.errors = showError(@, "form", "default"),
                             !.event = c]
              [] OTHER -> [g EXCEPT !.event = [c EXCEPT !.propagated = TRUE]]

\* the validators registered on the form
Registered(f) == Len(f.validators["email"]) + Len(f.validators["password"])

FormFrame ==
    UNCHANGED <<state, listeners, heap, storage, handles, called, stack, op,
                log, persisted, authVars, modal, confirm>>

\* a page load: new FormHandler(form, options)
FormHandler_constructor(onSubmit, resetOnSubmit) ==
    /\ form' = NewForm(onSubmit, resetOnSubmit)
    /\ FormFrame

\* addValidator(fieldName, validatorFn, errorMessage)
FormHandler_addValidator(name, kind) ==
    /\ Registered(form) < MaxValidators
    /\ form' = [form EXCEPT !.validators[name] = Append(@, kind),
                            !.event = Event("addValidator")]
    /\ FormFrame

\* the user edits a field and leaves it: the change (or blur) event runs
\* validateField(field); a TypeError it throws goes nowhere
Field_change(name, value) ==
    /\ LET f == [form EXCEPT !.values[name] = value]
           r == validateField(f, f.errors, name)
       IN form' = [f EXCEPT !.errors = r.errors, !.event = Event("change")]
    /\ FormFrame

\* the submit event
Form_submit(outcome) ==
    /\ form' = handleSubmit(form, outcome)
    /\ FormFrame

\* reset(): this.form.reset(); this.clearErrors()
FormHandler_reset ==
    /\ form' = [formReset(form) EXCEPT !.errors = NoErrors,
                                       !.event = Event("reset")]
    /\ FormFrame

(***************************************************************************)
(* The state after the modules are loaded: new State(); state.init();      *)
(* new Api(); new Auth() with an empty localStorage; a new Modal(), no     *)
(* call of Modal.confirm yet, and a new FormHandler(form).                 *)
(***************************************************************************)
Init ==
    /\ heap = <<ArrayObj(<<>>), PlainObj(<<>>)>>
    /\ state = [k \in Keys |->
           CASE k = "theme" -> Str(<<"light">>)
             [] k = "notifications" -> Ref(1)
             [] k = "sidebarOpen" -> Bool(TRUE)
             [] k = "loading" -> Bool(FALSE)
             [] k = "errors" -> Ref(2)
             [] OTHER -> NoProp]
    /\ listeners = [k \in Keys |-> NoSet]
    /\ storage = [k \in Keys |-> Null]
    /\ handles = <<>>
    /\ called = {}
    /\ stack = <<>>
    /\ op = NoOperation
    /\ log = <<>>
    /\ persisted = [k \in Keys |-> NoProp]
    /\ auth = [token |-> Null, user |-> Null]
    /\ api = [Authorization |-> NoProp]
    /\ items = [k \in AuthKeys |-> Null]
    /\ pending = {}
    /\ last = [name |-> "constructor", completed |-> TRUE, error |-> NoError,
               dispatched |-> 0]
    /\ loggedOut = FALSE
    /\ stale = {}
    /\ modal = NewModal
    /\ confirm = NoConfirm
    /\ form = NewForm(FALSE, FALSE)

(***************************************************************************)
(* What the callers do: the arguments the operations are called with.      *)
(***************************************************************************)
OpKeys == {"sidebarOpen", "notifications"}
SeqKeys == {"notifications", "sidebarOpen", "custom"}
Primitives == {Bool(TRUE), Bool(FALSE)}
Items == {Num(1)}
Patches == {Null, <<<<"sidebarOpen", Bool(FALSE)>>, <<"loading", Bool(TRUE)>>>>}
Seeds == {<<>>, <<<<"sidebarOpen", Bool(FALSE)>>, <<"custom", Num(1)>>>>}

\* set(key, []): the caller builds the array
SetFreshArray(key) ==
    LET a == Alloc(heap, ArrayObj(<<>>))
    IN /\ Len(heap) < 2 + MaxLiterals
       /\ State_set(a.heap, key, a.ref)

\* updateItem(key, predicate, { flag: true })
UpdateWithFlag(key, pred) ==
    LET a == Alloc(heap, PlainObj(<<<<<<"flag">>, Bool(TRUE)>>>>))
    IN /\ Len(a.heap) <= MaxHeap
       /\ State_updateItem(a.heap, key, pred, a.ref)

(***************************************************************************)
(* Spec: writes, subscriptions and notifications.                          *)
(***************************************************************************)
Next ==
    \/ \E v \in Primitives : State_set(heap, "sidebarOpen", v)
    \/ State_set(heap, "notifications", ReadProp(state, "notifications"))
    \/ SetFreshArray("notifications")
    \/ \E k \in OpKeys, cb \in Callbacks : State_subscribe(k, cb)
    \/ \E hd \in 1..MaxHandles : Unsubscribe(hd)
    \/ \E k \in OpKeys : State_toggle(k)
    \/ InvokeListener
    \/ Return
    \/ CallerResumes

Spec == Init /\ [][Next]_vars

(***************************************************************************)
(* SpecSeq: the array helpers, toggle and the bulk set, with one listener  *)
(* callback.                                                               *)
(***************************************************************************)
NextSeq ==
    \/ \E k \in SeqKeys, x \in Items : State_addItem(heap, k, x)
    \/ \E k \in SeqKeys, p \in Predicates : State_removeItem(k, p)
    \/ \E k \in SeqKeys, p \in Predicates : UpdateWithFlag(k, p)
    \/ \E k \in SeqKeys : State_toggle(k)
    \/ \E p \in Patches : State_setBulk(heap, p)
    \/ \E k \in SeqKeys : State_subscribe(k, 1)
    \/ InvokeListener
    \/ BulkStep
    \/ Return
    \/ CallerResumes

SpecSeq == Init /\ [][NextSeq]_vars

(***************************************************************************)
(* SpecPersist: persist, loadPersisted and page reloads, with one listener *)
(* callback.                                                               *)
(***************************************************************************)
PersistKeys == {"custom"}
PersistValues == {Bool(TRUE), Num(1), Null, Undefined, Str(<<"dark">>),
                  Str(<<"say ", Q, "hi", Q>>)}
\* what other scripts leave in localStorage: a bare word, the empty string
ForeignTexts == {<<"dark">>, <<>>}

\* set(key, [1])
SetArrayLiteral(key) ==
    LET a == Alloc(heap, ArrayObj(<<Num(1)>>))
    IN /\ Len(a.heap) <= MaxHeap
       /\ State_set(a.heap, key, a.ref)

\* set(key, [{ id: 1, msg: "hi" }])
SetNestedLiteral(key) ==
    LET o == Alloc(heap, PlainObj(<<<<<<"id">>, Num(1)>>, <<<<"msg">>, Str(<<"hi">>)>>>>))
        a == Alloc(o.heap, ArrayObj(<<o.ref>>))
    IN /\ Len(a.heap) <= MaxHeap
       /\ State_set(a.heap, key, a.ref)

NextPersist ==
    \/ \E k \in PersistKeys, v \in PersistValues : State_set(heap, k, v)
    \/ SetArrayLiteral("custom")
    \/ SetNestedLiteral("custom")
    \/ \E k \in PersistKeys, f \in BOOLEAN : State_persist(k, f)
    \/ \E k \in PersistKeys, f \in BOOLEAN : State_loadPersisted(k, f)
    \/ \E k \in PersistKeys, t \in ForeignTexts : Storage_setItem(k, t)
    \/ \E f \in BOOLEAN : State_init(heap, <<>>, f)
    \/ State_constructor
    \/ \E k \in PersistKeys : State_subscribe(k, 1)
    \/ InvokeListener
    \/ Return
    \/ CallerResumes

SpecPersist == Init /\ [][NextPersist]_vars

(***************************************************************************)
(* SpecItems: the array helpers on "notifications", holding numbers and    *)
(* objects.                                                                *)
(***************************************************************************)
ItemNumbers == {Num(1), Num(2)}

\* addItem(key, { id: 1, flag: false })
AddObjectItem(key) ==
    LET o == Alloc(heap, PlainObj(<<<<<<"id">>, Num(1)>>, <<<<"flag">>, Bool(FALSE)>>>>))
    IN /\ Len(o.heap) <= MaxHeap
       /\ State_addItem(o.heap, key, o.ref)

NextItems ==
    \/ \E x \in ItemNumbers : State_addItem(heap, "notifications", x)
    \/ AddObjectItem("notifications")
    \/ \E p \in Predicates : State_removeItem("notifications", p)
    \/ \E p \in Predicates : UpdateWithFlag("notifications", p)
    \/ CallerResumes

SpecItems == Init /\ [][NextItems]_vars

(***************************************************************************)
(* SpecInit: init, reset and page reloads around writes of "custom" and    *)
(* "theme", with the theme persisted or left in storage by another script. *)
(***************************************************************************)
InitKeys == {"custom", "theme"}
CustomValues == {Num(1), Num(2)}
ThemeValues == {Str(<<"dark">>), Str(<<"light">>)}

NextInit ==
    \/ \E v \in CustomValues : State_set(heap, "custom", v)
    \/ \E v \in ThemeValues : State_set(heap, "theme", v)
    \/ \E seed \in Seeds, f \in BOOLEAN : State_init(heap, seed, f)
    \/ \E seed \in Seeds, f \in BOOLEAN : State_reset(heap, seed, f)
    \/ \E f \in BOOLEAN : State_persist("theme", f)
    \/ \E t \in ForeignTexts : Storage_setItem("theme", t)
    \/ State_constructor
    \/ \E k \in InitKeys : State_subscribe(k, 1)
    \/ InvokeListener
    \/ Return
    \/ CallerResumes

SpecInit == Init /\ [][NextInit]_vars

(***************************************************************************)
(* set(key, value) run to its return in one piece, for listeners that      *)
(* return, throw or call set: the state it leaves and the listener calls   *)
(* it makes, in order, each <<callback, key, newValue, oldValue>>.  depth  *)
(* is the number of nested set calls still allowed; ok is FALSE when the   *)
(* run needs more.                                                         *)
(***************************************************************************)
RECURSIVE RunSetState(_, _, _, _, _)
RECURSIVE RunForEach(_, _, _, _, _, _, _)

\* listeners.forEach(callback => { try { callback(newValue, oldValue) } ... })
RunForEach(st, lst, cbs, key, newValue, oldValue, depth) ==
    IF cbs = <<>> THEN [state |-> st, calls |-> <<>>, ok |-> TRUE]
    ELSE LET body == CallbackBody(Head(cbs))
             r1 == IF body.kind = "set"
                   THEN IF depth = 0
                        THEN [state |-> st, calls |-> <<>>, ok |-> FALSE]
                        ELSE RunSetState(st, lst, body.key, body.val, depth - 1)
                   ELSE [state |-> st, calls |-> <<>>, ok |-> TRUE]
             r2 == RunForEach(r1.state, lst, Tail(cbs), key, newValue, oldValue, depth)
         IN IF ~r1.ok THEN r1
            ELSE [state |-> r2.state,
                  calls |-> <<<<Head(cbs), key, newValue, oldValue>>>>
                            \o r1.calls \o r2.calls,
                  ok |-> r2.ok]

\* setState(key, value)
RunSetState(st, lst, key, value, depth) ==
    LET r == setState(st, key, value)
    IN IF r.changed /\ lst[key].has
       THEN RunForEach(r.state, lst, Compact(lst[key].entries), key,
                       r.newValue, r.oldValue, depth)
       ELSE [state |-> r.state, calls |-> <<>>, ok |-> TRUE]

\* set(k1, v1); set(k2, v2); ... for the entries of a patch, in order
RECURSIVE RunSets(_, _, _, _)
RunSets(st, lst, entries, depth) ==
    IF entries = <<>> THEN [state |-> st, calls |-> <<>>, ok |-> TRUE]
    ELSE LET r1 == RunSetState(st, lst, Head(entries)[1], Head(entries)[2], depth)
             r2 == RunSets(r1.state, lst, Tail(entries), depth)
         IN IF ~r1.ok THEN r1
            ELSE [state |-> r2.state, calls |-> r1.calls \o r2.calls, ok |-> r2.ok]

(***************************************************************************)
(* SpecBulk: set(patch) and set(key, value) on two flags, with listeners   *)
(* that return, throw or set sidebarOpen.                                  *)
(***************************************************************************)
BulkKeys == {"sidebarOpen", "loading"}
BulkCallbacks == 1..4
BulkPatches == {<<<<"sidebarOpen", Bool(FALSE)>>, <<"loading", Bool(TRUE)>>>>,
                <<<<"loading", Bool(FALSE)>>, <<"sidebarOpen", Bool(TRUE)>>>>,
                <<>>}

NextBulk ==
    \/ \E p \in BulkPatches : State_setBulk(heap, p)
    \/ \E k \in BulkKeys, b \in BOOLEAN : State_set(heap, k, Bool(b))
    \/ \E k \in BulkKeys, cb \in BulkCallbacks : State_subscribe(k, cb)
    \/ InvokeListener
    \/ BulkStep
    \/ Return
    \/ CallerResumes

SpecBulk == Init /\ [][NextBulk]_vars

(***************************************************************************)
(* SpecConst: sidebarOpen with listeners that only write a constant of     *)
(* their own to it.  A call, once made, runs on: the forEach of an         *)
(* activation calls its next callback and returns when it has none left.   *)
(***************************************************************************)
ConstSetters == {3, 4, 7}
ConstValues == {Bool(TRUE), Bool(FALSE), Null}

NextConst ==
    \/ \E v \in ConstValues : State_set(heap, "sidebarOpen", v)
    \/ \E cb \in ConstSetters : State_subscribe("sidebarOpen", cb)
    \/ \E hd \in 1..MaxHandles : Unsubscribe(hd)
    \/ InvokeListener
    \/ Return
    \/ CallerResumes

SpecConst ==
    Init /\ [][NextConst]_vars /\ WF_vars(InvokeListener) /\ WF_vars(Return)

(***************************************************************************)
(* SpecAuth: the session.  The response of a request can come at any time, *)
(* other operations having run since the call; a page load can come at any *)
(* time (logout and the 'unauthorized' listener ask for one).              *)
(***************************************************************************)
NextAuth ==
    \/ \E f \in BOOLEAN : Auth_constructor(f)
    \/ \E r \in Responses : Auth_login(r) /\ Untracked
    \/ \E r \in Responses : Auth_register(r) /\ Untracked
    \/ \E r \in Responses : Auth_logout(r) /\ Untracked
    \/ \E r \in Responses : Auth_refreshToken(r) /\ Untracked
    \/ \E r \in Responses : Auth_updateProfile(r) /\ Untracked
    \/ \E t \in Tokens, u \in Users, f \in Faults :
          Auth_setSession(t, u, f) /\ Untracked
    \/ Auth_clearSession /\ Untracked
    \/ \E r \in Responses : Api_settles(r) /\ Untracked

SpecAuth == Init /\ [][NextAuth]_vars

(***************************************************************************)
(* SpecLogout: the session with the calls kept track of, to tell a         *)
(* response of a call made before logout cleared the session from one of   *)
(* a call made after.  logout asks for the login page; until that page is  *)
(* loaded the old one goes on handling responses.                          *)
(***************************************************************************)
LogoutResponses ==
    {r \in Responses :
        /\ r.body = "object"
        /\ r.status \in {200, 500}
        /\ r.token \in {Str(<<"t1">>), Undefined}
        /\ r.user \in {Str(<<"ann">>), Undefined}
        /\ (r.token = Undefined) = (r.user = Undefined)}

NextLogout ==
    \/ Auth_constructor(FALSE)
    \/ \E m \in AsyncMethods : Api_request(m)
    \/ \E r \in LogoutResponses :
          Awaited("login") /\ Auth_login(r) /\ Track("login")
    \/ \E r \in LogoutResponses :
          Awaited("register") /\ Auth_register(r) /\ Track("register")
    \/ \E r \in LogoutResponses :
          Awaited("refreshToken") /\ Auth_refreshToken(r) /\ Track("refreshToken")
    \/ \E r \in LogoutResponses :
          Awaited("updateProfile") /\ Auth_updateProfile(r)
             /\ Track("updateProfile")
    \/ \E r \in LogoutResponses :
          Awaited("logout") /\ Auth_logout(r) /\ TrackLogout

SpecLogout == Init /\ [][NextLogout]_vars

(***************************************************************************)
(* SpecModal: a modal and a confirm dialog, with the clicks, the keys and  *)
(* the animationend events of the page.                                    *)
(***************************************************************************)
ConfirmTargets == {"close", "overlay", "modal"}

NextModal ==
    \/ Modal_open
    \/ Modal_close
    \/ CloseButton_click
    \/ \E t \in ClickTargets : Overlay_click(t)
    \/ \E k \in Keys_pressed : Document_keydown(k)
    \/ Modal_animationend
    \/ Modal_confirm
    \/ ConfirmButton_click
    \/ CancelButton_click
    \/ \E t \in ConfirmTargets : Confirm_dismiss(t)
    \/ Confirm_animationend

SpecModal == Init /\ [][NextModal]_vars

(***************************************************************************)
(* SpecForm: a form handler, with the edits and the submit events of the   *)
(* page.                                                                   *)
(***************************************************************************)
NextForm ==
    \/ \E o \in BOOLEAN, r \in BOOLEAN : FormHandler_constructor(o, r)
    \/ \E n \in Fields, k \in ValidatorKinds : FormHandler_addValidator(n, k)
    \/ \E n \in Fields, v \in FieldValues : Field_change(n, v)
    \/ \E o \in OnSubmitOutcomes : Form_submit(o)
    \/ FormHandler_reset

SpecForm == Init /\ [][NextForm]_vars

(***************************************************************************)
(* Properties.                                                             *)
(***************************************************************************)
Frames == {stack[i] : i \in NotifyFrames(stack)}
LogWrites(key) == {i \in 1..Len(log) : log[i].ev = "write" /\ log[i].key = key}
LogCalls(fid, cb) ==
    {i \in 1..Len(log) : log[i].ev = "call" /\ log[i].fid = fid /\ log[i].cb = cb}
Last(S) == CHOOSE i \in S : \A j \in S : j <= i
\* the forEach of frame f has no callback left to call
Visited(f) == NextLive(listeners[f.key].entries, f.idx) = 0
\* the callbacks that left the Set while frame f was notifying
Gone(f) == {g[1] : g \in f.gone}
Returned(name) == op.name = name /\ op.done

C2_ChangeGated ==
    /\ \A i \in 1..Len(log) :
          log[i].ev = "write" =>
             IF log[i].new = log[i].old
             THEN /\ \A j \in 1..Len(log) : ~(log[j].ev = "call" /\ log[j].fid = i)
                  /\ \A f \in Frames : f.fid # i
             ELSE log[i].subs # {} =>
                     \/ \E f \in Frames : f.fid = i
                     \/ \E j \in 1..Len(log) : log[j].ev = "call" /\ log[j].fid = i
    /\ \A i \in 1..Len(log) :
          log[i].ev = "call" =>
             /\ log[i].fid \in 1..(i - 1)
             /\ log[log[i].fid].ev = "write"
             /\ log[log[i].fid].key = log[i].key
             /\ log[log[i].fid].new = log[i].new
             /\ log[log[i].fid].old = log[i].old
             /\ log[i].cb \in log[log[i].fid].subs
    /\ \A f \in Frames :
          /\ log[f.fid].ev = "write"
          /\ log[f.fid].key = f.key
          /\ f.newValue = log[f.fid].new
          /\ f.oldValue = log[f.fid].old
          /\ \A cb \in Callbacks : Cardinality(LogCalls(f.fid, cb)) <= 1
          /\ Visited(f) =>
                \A cb \in log[f.fid].subs \ Gone(f) :
                    Cardinality(LogCalls(f.fid, cb)) = 1

\* a listener of "notifications" has been called with a new array that
\* holds what the array it replaced holds
C2_Witness ==
    \E i \in 1..Len(log) :
        /\ log[i].ev = "call"
        /\ log[i].key = "notifications"
        /\ IsRef(log[i].new) /\ IsRef(log[i].old)
        /\ log[i].new # log[i].old
        /\ StructEq(heap, log[i].new, heap, log[i].old)

\* C3: once the handle of subscribe(k, cb) has been invoked, from the caller
\* or from inside a listener while k is being notified, cb is out of k's Set
\* and is not called again, neither by the notification that is running nor
\* by a later write; the callbacks still registered on k are all called.
C3_Unsubscribe ==
    /\ Returned("unsubscribe") =>
          handles[Payload(op.val)][2] \notin Live(listeners[op.key].entries)
    /\ \A i \in 1..Len(log) :
          log[i].ev = "call" =>
             /\ log[i].cb \in log[log[i].fid].subs
             /\ LET body == CallbackBody(log[i].cb)
                IN body.kind = "unsubscribe" /\ body.handle \in 1..Len(handles) =>
                      handles[body.handle][2] \notin
                          Live(listeners[handles[body.handle][1]].entries)
    /\ \A f \in Frames :
          /\ \A g \in f.gone :
                /\ g[1] \notin Live(listeners[f.key].entries)
                /\ \A i \in (g[2] + 1)..Len(log) :
                      ~(log[i].ev = "call" /\ log[i].cb = g[1] /\ log[i].key = f.key)
          /\ Visited(f) =>
                \A cb \in f.start \ Gone(f) : LogCalls(f.fid, cb) # {}

\* a listener has unsubscribed a callback of the key being notified, and
\* another callback of that key has been called after that
C3_Witness ==
    \E f \in Frames :
        /\ Visited(f)
        /\ \E g \in f.gone :
              \E i \in (g[2] + 1)..Len(log) :
                  log[i].ev = "call" /\ log[i].fid = f.fid /\ log[i].cb # g[1]

\* the callbacks registered on each key
Registry(lst) == [k \in Keys |-> Live(lst[k].entries)]

\* this step is an invocation of the handle numbered hd, by the caller or by
\* a listener
HandleInvoked(hd) ==
    \/ op = NoOperation /\ op'.name = "unsubscribe" /\ op'.val = Num(hd)
    \/ /\ Len(log') = Len(log) + 1
       /\ log'[Len(log')].ev = "call"
       /\ CallbackBody(log'[Len(log')].cb).kind = "unsubscribe"
       /\ CallbackBody(log'[Len(log')].cb).handle = hd

\* C4: the first invocation of the handle of subscribe(k, cb) takes exactly
\* cb out of exactly k, and every later invocation of that handle leaves the
\* registry as it is, whatever was subscribed in between.
C4_HandleIdempotent ==
    [][\A hd \in 1..Len(handles) :
          HandleInvoked(hd) =>
             IF hd \in called
             THEN Registry(listeners') = Registry(listeners)
             ELSE Registry(listeners') =
                     [Registry(listeners) EXCEPT
                         ![handles[hd][1]] = @ \ {handles[hd][2]}]]_vars

\* the listener call logged at position i raised
Threw(i) ==
    /\ log[i].ev = "call"
    /\ LET body == CallbackBody(log[i].cb)
       IN \/ body.kind = "throw"
          \/ body.kind = "unsubscribe" /\ body.handle \notin 1..Len(handles)

\* C5: when a listener of k raises while k's change is notified, the
\* operation does not raise, the write is not undone, and once the
\* notification has gone through the Set every callback that was and still
\* is registered on k has been called for that change.
C5_ErrorIsolation ==
    \A i \in 1..Len(log) :
        Threw(i) =>
           LET key == log[i].key
               fid == log[i].fid
           IN /\ ~op.raised
              /\ ReadProp(state, key) = log[Last(LogWrites(key))].new
              /\ \/ \E f \in Frames : f.fid = fid /\ ~Visited(f)
                 \/ \A cb \in log[fid].subs \cap Live(listeners[key].entries) :
                       LogCalls(fid, cb) # {}
              /\ op.done => stack = <<>>

\* set(k, v) has returned normally with k = v after one listener of k raised
\* and another listener of k was called after it for the same change
C5_Witness ==
    /\ Returned("set")
    /\ ~op.raised
    /\ ReadProp(state, op.key) = op.val
    /\ \E i \in 1..Len(log) :
          /\ Threw(i)
          /\ log[i].fid = 1
          /\ \E j \in (i + 1)..Len(log) :
                log[j].ev = "call" /\ log[j].fid = 1 /\ log[j].cb # log[i].cb

\* toggle(k) has returned after writing k
Toggled == Returned("toggle") /\ log # <<>>

\* toggle's own write and its notification: the first write of the call is
\* k: b -> not-b, every later write is a listener's, and the callbacks of k
\* are called for the first write at most once, those still registered
\* exactly once, with (not-b, b)
ToggleWritesOnce ==
    Toggled =>
        /\ log[1].ev = "write" /\ log[1].key = op.key
        /\ IsBoolean(log[1].old)
        /\ log[1].new = Bool(~Payload(log[1].old))
        /\ \A i \in 2..Len(log) :
              log[i].ev = "write" =>
                 log[i - 1].ev = "call" /\ CallbackBody(log[i - 1].cb).kind = "set"
        /\ \A cb \in Callbacks : Cardinality(LogCalls(1, cb)) <= 1
        /\ \A cb \in log[1].subs \cap Live(listeners[op.key].entries) :
              Cardinality(LogCalls(1, cb)) = 1
        /\ \A i \in 1..Len(log) :
              log[i].ev = "call" /\ log[i].fid = 1 =>
                 log[i].new = log[1].new /\ log[i].old = log[1].old

\* toggle(k) on a value that is not a boolean returns at once: no write, no
\* listener call, the state as it was
ToggleGuard ==
    /\ [](Returned("toggle") /\ log = <<>> => ~IsBoolean(ReadProp(state, op.key)))
    /\ [][op = NoOperation /\ op'.name = "toggle"
             /\ ~IsBoolean(ReadProp(state, op'.key)) =>
          state' = state /\ listeners' = listeners /\ log' = <<>>
             /\ stack' = <<>> /\ op'.done /\ ~op'.raised]_vars

\* C10 as claimed: toggle(k) on a boolean b leaves get(k) = not-b when it
\* returns, having written k once and notified each listener of k once with
\* (not-b, b); on a non-boolean it changes nothing and notifies nobody.
C10_ToggleFlips ==
    /\ [](Toggled => get(state, op.key) = Bool(~Payload(log[1].old)))
    /\ []ToggleWritesOnce
    /\ ToggleGuard

\* C10, amended: as claimed, except that get(k) is not-b when toggle returns
\* only if no listener notified during the call wrote k again; in general it
\* is the value of the last write to k made during the call.
C10_ToggleFlipsUnlessRewritten ==
    /\ [](Toggled =>
            /\ get(state, op.key) = log[Last(LogWrites(op.key))].new
            /\ Cardinality(LogWrites(op.key)) = 1 =>
                  get(state, op.key) = Bool(~Payload(log[1].old)))
    /\ []ToggleWritesOnce
    /\ ToggleGuard

\* toggle(k) has returned with k flipped after a listener of k was called
C10_Witness ==
    /\ Toggled
    /\ get(state, op.key) = Bool(~Payload(log[1].old))
    /\ \E i \in 1..Len(log) : log[i].ev = "call" /\ log[i].fid = 1

\* this step is a call of toggle on a key whose value is not a boolean, or
\* of addItem, removeItem or updateItem on a key whose value is not an array
Misuse ==
    /\ op = NoOperation
    /\ \/ op'.name = "toggle" /\ ~IsBoolean(ReadProp(state, op'.key))
       \/ /\ op'.name \in {"addItem", "removeItem", "updateItem"}
          /\ ~IsArray(heap, ReadProp(state, op'.key))

\* C9: toggle on a non-boolean and addItem, removeItem and updateItem on a
\* non-array (an absent key included) return at once without raising; the
\* state mapping and the arrays and objects it refers to are as before, and
\* no listener is called.
C9_MisuseIsNoOp ==
    [][Misuse =>
          /\ state' = state
          /\ \A i \in 1..Len(heap) : heap'[i] = heap[i]
          /\ listeners' = listeners
          /\ log' = <<>>
          /\ stack' = <<>>
          /\ op'.done
          /\ ~op'.raised]_vars

\* addItem on the absent key "custom", which has a listener, has returned
\* and "custom" is still absent
C9_Witness ==
    /\ Returned("addItem")
    /\ op.key = "custom"
    /\ state["custom"] = NoProp
    /\ Live(listeners["custom"].entries) # {}
    /\ log = <<>>
    /\ ~op.raised

\* C8: no public operation of the store raises an error to its caller.
C8_NeverRaises == ~op.raised

\* a value JSON has a text for: null, a boolean, a number, a string, or an
\* array or object of such values
RECURSIVE JSONRepresentable(_, _)
JSONRepresentable(h, v) ==
    CASE Tag(v) \in {"null", "boolean", "number", "string"} -> TRUE
      [] Tag(v) = "ref" ->
            LET cell == h[Payload(v)]
            IN IF cell[1] = "array"
               THEN \A i \in 1..Len(cell[2]) : JSONRepresentable(h, cell[2][i])
               ELSE \A i \in 1..Len(cell[2]) : JSONRepresentable(h, cell[2][i][2])
      [] OTHER -> FALSE

LoadFails ==
    /\ op = NoOperation
    /\ op'.name = "loadPersisted"
    /\ \/ op'.fault
       \/ storage[op'.key] = Null
       \/ ~JSONparse(Payload(storage[op'.key]), heap).ok

\* C7: loadPersisted(k) returns null when the read throws, when there is no
\* item under k and when the item does not decode; persist(k) returns
\* normally whether or not its storage write throws.  Neither raises, and in
\* all these cases the state mapping is as before and no listener is called;
\* a persist whose write throws leaves the storage as it was.
C7_FailuresAbsorbed ==
    [][/\ LoadFails =>
             /\ op'.ret = Null
             /\ op'.done /\ ~op'.raised
             /\ state' = state /\ heap' = heap /\ listeners' = listeners
             /\ log' = <<>> /\ stack' = <<>>
       /\ op = NoOperation /\ op'.name = "persist" =>
             /\ op'.done /\ ~op'.raised
             /\ state' = state /\ heap' = heap /\ listeners' = listeners
             /\ log' = <<>> /\ stack' = <<>>
             /\ op'.fault => storage' = storage]_vars

\* loadPersisted(k) has returned null for an item that is not JSON, with a
\* listener registered on k and k holding a value
C7_Witness ==
    /\ Returned("loadPersisted")
    /\ ~op.fault
    /\ op.ret = Null
    /\ storage[op.key] = Str(<<"dark">>)
    /\ Live(listeners[op.key].entries) # {}
    /\ state[op.key] # NoProp
    /\ log = <<>>

\* the elements of the array v refers to
ElemsOf(h, v) == h[Payload(v)][2]

\* the step wrote under key a new array instance, and every array and
\* object that existed before is as it was
WroteNewArray(key) ==
    /\ IsArray(heap', state'[key])
    /\ Payload(state'[key]) > Len(heap)
    /\ \A i \in 1..Len(heap) : heap'[i] = heap[i]
    /\ \A k \in Keys \ {key} : state'[k] = state[k]

\* the own fields of an array element: those of an object, none for a number
ItemFields(h, e) ==
    IF IsRef(e) /\ h[Payload(e)][1] = "object" THEN h[Payload(e)][2] ELSE <<>>
FieldNames(fields) == {fields[i][1] : i \in 1..Len(fields)}

\* m is a new object holding the fields of e overridden by those of u
IsMergeOf(m, e, u) ==
    /\ IsRef(m) /\ Payload(m) > Len(heap)
    /\ heap'[Payload(m)][1] = "object"
    /\ LET mf == heap'[Payload(m)][2]
           ef == ItemFields(heap, e)
           uf == ItemFields(heap', u)
       IN /\ FieldNames(mf) = FieldNames(ef) \cup FieldNames(uf)
          /\ Cardinality(FieldNames(mf)) = Len(mf)
          /\ \A n \in FieldNames(mf) :
                FieldOf(mf, n) = IF n \in FieldNames(uf) THEN FieldOf(uf, n)
                                 ELSE FieldOf(ef, n)

\* the predicate answers true or false on every element
Total(p, h, elems) ==
    \A i \in 1..Len(elems) : ApplyPredicate(p, h, elems[i]) # "throw"

\* C11: on a key holding an array s, addItem writes a new array equal to s
\* with the item appended; removeItem writes a new array holding, in their
\* order, the elements of s the predicate rejects; updateItem writes a new
\* array of the same length where each element the predicate accepts is
\* replaced by a new object merging it with the updates (the updates' fields
\* win) and every other element is the same value at the same place.  The
\* array s and every other array and object are left as they were.
C11_SequenceOps ==
    [][LET key == "notifications"
           old == ReadProp(state, key)
           s == ElemsOf(heap, old)
           t == ElemsOf(heap', state'[key])
       IN IsArray(heap, old) =>
          /\ op = NoOperation /\ op'.name = "addItem" =>
                WroteNewArray(key) /\ t = Append(s, op'.val)
          /\ \A p \in Predicates :
                State_removeItem(key, p) /\ Total(p, heap, s) =>
                   /\ WroteNewArray(key)
                   /\ t = SelectSeq(s, LAMBDA e : ApplyPredicate(p, heap, e) = "false")
          /\ \A p \in Predicates :
                UpdateWithFlag(key, p) /\ Total(p, heap, s) =>
                   /\ WroteNewArray(key)
                   /\ Len(t) = Len(s)
                   /\ \A i \in 1..Len(s) :
                         IF ApplyPredicate(p, heap, s[i]) = "true"
                         THEN IsMergeOf(t[i], s[i], op'.val)
                         ELSE t[i] = s[i]]_vars

\* updateItem has replaced { id: 1, flag: false } by a new object
\* { id: 1, flag: true }, and the old object still has flag: false
C11_Witness ==
    /\ Returned("updateItem")
    /\ IsArray(heap, state["notifications"])
    /\ \E i \in 1..Len(ElemsOf(heap, state["notifications"])) :
          LET m == ElemsOf(heap, state["notifications"])[i]
          IN /\ IsRef(m)
             /\ FieldOf(ItemFields(heap, m), <<"id">>) = Num(1)
             /\ FieldOf(ItemFields(heap, m), <<"flag">>) = Bool(TRUE)
             /\ \E j \in 1..Len(heap) :
                   /\ j # Payload(m)
                   /\ FieldOf(ItemFields(heap, Ref(j)), <<"flag">>) = Bool(FALSE)

SeedHas(seed, k) == \E i \in 1..Len(seed) : seed[i][1] = k
SeedValue(seed, k) == seed[CHOOSE i \in 1..Len(seed) : seed[i][1] = k][2]

\* after the step, key k holds its default
HoldsDefault(k) ==
    CASE k = "theme" ->
            state'[k] = IF storage[k] \in {Null, Str(<<>>)} THEN Str(<<"light">>)
                        ELSE storage[k]
      [] k = "notifications" ->
            IsArray(heap', state'[k]) /\ ElemsOf(heap', state'[k]) = <<>>
      [] k = "sidebarOpen" -> state'[k] = Bool(TRUE)
      [] k = "loading" -> state'[k] = Bool(FALSE)
      [] k = "errors" ->
            /\ IsRef(state'[k])
            /\ heap'[Payload(state'[k])] = PlainObj(<<>>)
      [] OTHER -> FALSE

\* C12: after init(seed) or reset(seed), with a storage that can be read,
\* every key of the seed holds the seed's value, every default key not in
\* the seed holds its default (theme: the stored item, "light" if there is
\* none; notifications: an empty array; sidebarOpen: true; loading: false;
\* errors: an empty object), and every other key is absent.
C12_InitReplaces ==
    [][\A seed \in Seeds :
          State_init(heap, seed, FALSE) \/ State_reset(heap, seed, FALSE) =>
             \A k \in Keys :
                IF SeedHas(seed, k) THEN state'[k] = SeedValue(seed, k)
                ELSE IF k \in DefaultKeys THEN HoldsDefault(k)
                ELSE state'[k] = NoProp]_vars

\* reset({ sidebarOpen: false, custom: 1 }) has returned: the seed's two
\* keys hold its values and theme holds the item another script stored
C12_Witness ==
    /\ Returned("reset")
    /\ ~op.raised
    /\ state["sidebarOpen"] = Bool(FALSE)
    /\ state["custom"] = Num(1)
    /\ state["loading"] = Bool(FALSE)
    /\ state["theme"] = Str(<<"dark">>)
    /\ storage["theme"] = Str(<<"dark">>)

\* C13: init and reset call no listener and leave the listener registry as
\* it is, whatever happens to the values; so, no handle being invoked, every
\* callback subscribed stays registered, and a later write that changes its
\* key calls it.
C13_ResetKeepsListeners ==
    /\ [][op = NoOperation /\ op'.name \in {"init", "reset"} =>
             /\ listeners' = listeners
             /\ log' = <<>> /\ stack' = <<>> /\ op'.done]_vars
    /\ [](\A i \in 1..Len(handles) :
             handles[i][2] \in Live(listeners[handles[i][1]].entries))
    /\ [](\A i \in 1..Len(log) :
             log[i].ev = "write" /\ log[i].new # log[i].old =>
                \/ \E f \in Frames : f.fid = i /\ ~Visited(f)
                \/ \A cb \in Live(listeners[log[i].key].entries) :
                      LogCalls(i, cb) # {})

\* reset() has returned on a store with a listener on "custom": the key is
\* absent and no listener was called
C13_Witness ==
    /\ Returned("reset")
    /\ ~op.raised
    /\ Live(listeners["custom"].entries) # {}
    /\ state["custom"] = NoProp
    /\ log = <<>>

\* the state the running operation started from: a key holds what the first
\* write to it replaced, or what it holds now if it was not written
StateBefore ==
    [k \in Keys |->
        IF LogWrites(k) = {} THEN state[k]
        ELSE LET first == CHOOSE i \in LogWrites(k) : \A j \in LogWrites(k) : i <= j
             IN IF log[first].old = Undefined THEN NoProp ELSE log[first].old]

\* the listener calls of the operation, in order
RECURSIVE CallsOf(_)
CallsOf(events) ==
    IF events = <<>> THEN <<>>
    ELSE (IF Head(events).ev = "call"
          THEN <<<<Head(events).cb, Head(events).key, Head(events).new,
                   Head(events).old>>>>
          ELSE <<>>) \o CallsOf(Tail(events))

\* C14: set(patch) leaves the state, and makes the listener calls (callback,
\* arguments, order), that set(key, value) called once per entry of the
\* patch, in the patch's order, leaves and makes; set(key, value) itself is
\* compared with the same run.
C14_BulkIsSequence ==
    /\ Returned("setBulk") /\ ~op.raised =>
          LET r == RunSets(StateBefore, listeners, op.val[2], MaxDepth)
          IN r.ok /\ state = r.state /\ CallsOf(log) = r.calls
    /\ Returned("set") =>
          LET r == RunSetState(StateBefore, listeners, op.key, op.val, MaxDepth)
          IN r.ok /\ state = r.state /\ CallsOf(log) = r.calls

\* set({ loading: false, sidebarOpen: true }) has returned after a listener
\* of loading wrote sidebarOpen between the two entries, and listeners of
\* both keys were called
C14_Witness ==
    /\ Returned("setBulk")
    /\ Len(op.val[2]) = 2
    /\ \E i, j, m \in 1..Len(log) :
          /\ i < j /\ j < m
          /\ log[i].ev = "call" /\ log[i].key = op.val[2][1][1]
          /\ CallbackBody(log[i].cb).kind = "set"
          /\ log[j].ev = "write" /\ j = i + 1 /\ log[j].new # log[j].old
          /\ log[m].ev = "write" /\ log[m].key = op.val[2][2][1]
          /\ log[m - 1].ev = "call" /\ log[m - 1].key = log[j].key

\* C15: when a listener called for a change writes a key and changes it,
\* the callbacks of the written key are called right then: none of them is
\* called after a later callback of the outer change, and by the time the
\* outer change calls its next callback, or the operation returns, every
\* callback registered on the written key has been called for the write.
C15_NestedFirst ==
    \A i \in 1..(Len(log) - 1) :
        /\ log[i].ev = "call"
        /\ log[i + 1].ev = "write"
        /\ log[i + 1].new # log[i + 1].old
        => LET w == i + 1
               resumed == {j \in (w + 1)..Len(log) :
                              log[j].ev = "call" /\ log[j].fid = log[i].fid}
           IN /\ \A j \in resumed : \A m \in 1..Len(log) :
                    log[m].ev = "call" /\ log[m].fid = w => m < j
              /\ resumed # {} \/ op.done =>
                    \A cb \in log[w].subs \cap Live(listeners[log[w].key].entries) :
                       LogCalls(w, cb) # {}

\* an operation has returned in which a listener's write was notified to a
\* callback before the outer change went on to its next callback
C15_Witness ==
    /\ op.done
    /\ \E i \in 1..(Len(log) - 1) :
          /\ log[i].ev = "call"
          /\ log[i + 1].ev = "write"
          /\ \E m, j \in (i + 2)..Len(log) :
                /\ m < j
                /\ log[m].ev = "call" /\ log[m].fid = i + 1
                /\ log[j].ev = "call" /\ log[j].fid = log[i].fid

\* the place of a callback in a Set's list
Pos(entries, cb) == CHOOSE i \in 1..Len(entries) : entries[i] = cb

\* C16: the Set of a key lists its callbacks in the order they were
\* registered and holds each once: subscribe puts a callback that is not in
\* the Set behind all that are, and changes nothing for one that is; no step
\* changes the relative order of two callbacks that stay registered.  For
\* one change the callbacks are called in that order, each at most once.
C16_RegistrationOrder ==
    /\ [](\A k \in Keys : \A i, j \in 1..Len(listeners[k].entries) :
             i # j /\ listeners[k].entries[i] = listeners[k].entries[j] =>
                listeners[k].entries[i] = 0)
    /\ [](\A i, j \in 1..Len(log) :
             i < j /\ log[i].ev = "call" /\ log[j].ev = "call"
             /\ log[i].fid = log[j].fid =>
                /\ log[i].cb # log[j].cb
                /\ LET e == listeners[log[i].key].entries
                   IN {log[i].cb, log[j].cb} \subseteq Live(e) =>
                         Pos(e, log[i].cb) < Pos(e, log[j].cb))
    /\ [][/\ \A k \in Keys :
                LET e == listeners[k].entries
                    e1 == listeners'[k].entries
                IN \A a, b \in Live(e) \cap Live(e1) :
                      Pos(e, a) < Pos(e, b) <=> Pos(e1, a) < Pos(e1, b)
          /\ op = NoOperation /\ op'.name = "subscribe" =>
                LET k == op'.key
                    cb == handles'[Len(handles')][2]
                    e == listeners[k].entries
                    e1 == listeners'[k].entries
                IN IF cb \in Live(e) THEN e1 = e
                   ELSE /\ Live(e1) = Live(e) \cup {cb}
                        /\ \A a \in Live(e) : Pos(e1, a) < Pos(e1, cb)]_vars

\* two callbacks subscribed to one key, one after the other, have been
\* called for one change in that order
C16_Witness ==
    /\ Len(handles) = 2
    /\ handles[1][1] = handles[2][1]
    /\ handles[1][2] # handles[2][2]
    /\ called = {}
    /\ \E i, j \in 1..Len(log) :
          /\ i < j
          /\ log[i].ev = "call" /\ log[i].cb = handles[1][2]
          /\ log[j].ev = "call" /\ log[j].cb = handles[2][2]
          /\ log[i].fid = log[j].fid /\ log[i].key = handles[1][1]

\* the calls of cb for changes of key, as log positions
CallsFor(key, cb) ==
    {i \in 1..Len(log) : log[i].ev = "call" /\ log[i].key = key /\ log[i].cb = cb}

\* the callbacks registered on the key of set(k, v) from its call to its
\* return
StayedOn == log[1].subs \cap Live(listeners[op.key].entries)

\* every write of key made by a listener during the operation was made by a
\* callback of key's own Set that is cb or comes after cb
NoEarlierWriter(key, cb) ==
    \A i \in 2..Len(log) :
        log[i].ev = "write" /\ log[i].key = key /\ log[i].new # log[i].old =>
           /\ log[i - 1].key = key
           /\ {cb, log[i - 1].cb} \subseteq Live(listeners[key].entries)
           /\ Pos(listeners[key].entries, log[i - 1].cb)
                 >= Pos(listeners[key].entries, cb)

SetRunning == op.name = "set" /\ op.key = "sidebarOpen" /\ ~op.done

\* the listeners of sidebarOpen all write the same constant
SameConstant ==
    \A a, b \in Live(listeners["sidebarOpen"].entries) :
        CallbackBody(a).val = CallbackBody(b).val

\* C18 as claimed: with listeners on k that each only call set(k, c) for a
\* constant c of their own, the change test stops the recursion of every
\* set(k, v): the nesting of notifyListeners stays below the depth MaxDepth
\* at which the call stack is exhausted.
C18_SetTerminates ==
    SetRunning => Cardinality(NotifyFrames(stack)) < MaxDepth

\* C18, amended: when the constants of the listeners of k are all the same,
\* every set(k, v) returns, and the change test stops the recursion at the
\* second activation of notifyListeners.
C18_TerminatesOnOneConstant ==
    /\ (SetRunning /\ SameConstant) ~> op.done
    /\ [](SetRunning /\ SameConstant => Cardinality(NotifyFrames(stack)) <= 2)

\* set('sidebarOpen', v) has returned after two listeners with the same
\* constant ran, the first one's write having been notified in turn and the
\* later writes of that constant having stopped at the change test
C18_Witness ==
    /\ Returned("set")
    /\ op.key = "sidebarOpen"
    /\ SameConstant
    /\ Cardinality(Live(listeners["sidebarOpen"].entries)) >= 2
    /\ Cardinality(LogWrites("sidebarOpen")) >= 3
    /\ \E i \in 2..Len(log) : log[i].ev = "write" /\ log[i].new # log[i].old
    /\ \E i \in 2..Len(log) : log[i].ev = "write" /\ log[i].new = log[i].old

\* a store as the constructor leaves it
FreshStore == \A k \in Keys : state[k] = NoProp

\* C19: when persist('theme') stored the string v that set('theme', v) wrote
\* and the item is still the one it stored, init() on a fresh store over the
\* same storage makes get('theme') equal to v.
C19_ThemeSurvivesRestart ==
    [][/\ FreshStore
       /\ Tag(persisted["theme"]) = "string"
       /\ State_init(heap, <<>>, FALSE)
       => get(state', "theme") = persisted["theme"]]_vars

\* the client carries an Authorization header
HasAuthorization == api.Authorization # NoProp

\* the operations of Auth that set or clear the session
SessionOps ==
    {"constructor", "setSession", "clearSession", "login", "register",
     "refreshToken", "updateProfile", "logout"}

\* C20: after the Auth constructor and after every setSession, clearSession,
\* login, register, refreshToken, updateProfile or logout that completed,
\* the API client has an Authorization header exactly when isAuthenticated()
\* is true, and the header is then "Bearer " followed by the token in memory.
C20_HeaderInStep ==
    last.name \in SessionOps /\ last.completed =>
        /\ HasAuthorization <=> isAuthenticated(auth)
        /\ HasAuthorization =>
              /\ Tag(auth.token) = "string"
              /\ api.Authorization = Str(<<"Bearer ">> \o Payload(auth.token))

\* refreshToken() has completed with the token "t2": the header carries
\* "Bearer t2"
C20_Witness ==
    /\ last.name = "refreshToken"
    /\ last.completed
    /\ auth.token = Str(<<"t2">>)
    /\ api.Authorization = Str(<<"Bearer ", "t2">>)
    /\ items[tokenKey] = Str(<<"t2">>)

\* no session: not authenticated, no user, neither item in localStorage and
\* no Authorization header
NoSession(a, hdrs, its) ==
    /\ ~isAuthenticated(a)
    /\ getUser(a) = Null
    /\ its[tokenKey] = Null
    /\ its[userKey] = Null
    /\ hdrs.Authorization = NoProp

\* the error that login or refreshToken catches on the response r: the one
\* its request rejected with, the TypeError of reading response.token on
\* null, or the one setSession threw
CaughtError(r) ==
    CASE r.status = 0 -> Err("TypeError", 0)
      [] r.body = "text" -> Err("SyntaxError", 0)
      [] r.body = "null" -> Err("TypeError", 0)
      [] r.status # 200 -> Err("Object", r.status)
      [] OTHER -> Err("QuotaExceededError", 0)

\* C21: whenever login() or refreshToken() rejects, isAuthenticated() is
\* false, getUser() is null, both items are removed from localStorage and
\* the client has no Authorization header, whatever the session was before;
\* the error it rejects with is the one it caught.
C21_FailureEndsSession ==
    [][last'.name \in {"login", "refreshToken"} /\ ~last'.completed =>
          /\ NoSession(auth', api', items')
          /\ \A r \in Responses :
                Auth_login(r) \/ Auth_refreshToken(r) =>
                   last'.error = CaughtError(r)]_vars

\* login() has rejected with the error of a 401 response and left no session
C21_Witness ==
    /\ last.name = "login"
    /\ ~last.completed
    /\ last.error = Err("Object", 401)
    /\ NoSession(auth, api, items)

\* the request with the response r fails: no response, a status outside
\* 200..299, or a body that cannot be read as JSON
RequestFails(r) == r.status = 0 \/ ~ResponseOk(r) \/ r.body = "text"

\* C22: a request whose response has the status 401 dispatches 'unauthorized'
\* once before its promise rejects, so that the listener of Auth clears the
\* session; a request that fails for another reason dispatches none; every
\* failing request rejects with its error.
C22_UnauthorizedSignalled ==
    [][last'.name = "request" =>
          \A r \in Responses :
             Api_settles(r) =>
                /\ last'.dispatched = IF r.status = 401 THEN 1 ELSE 0
                /\ r.status = 401 => NoSession(auth', api', items')
                /\ RequestFails(r) => ~last'.completed]_vars

\* C23: once logout() has cleared the session, isAuthenticated() is false
\* and localStorage holds no token until a login, register or refreshToken
\* that was called after the logout succeeds; the responses of calls that
\* were awaiting when logout cleared the session set up no session.
C23_NoResurrection ==
    loggedOut => ~isAuthenticated(auth) /\ items[tokenKey] = Null

\* what a new Auth over the same localStorage has: the token item as read by
\* getItem
Restarted == [token |-> items[tokenKey], user |-> Null]

\* C24: after completed operations of Auth, a new Auth constructed over the
\* same localStorage reports the isAuthenticated() of the present one, and
\* localStorage holds no token item while the token in memory is null or
\* undefined.
C24_RestartConsistent ==
    last.name \in SessionOps /\ last.completed =>
        /\ isAuthenticated(Restarted) <=> isAuthenticated(auth)
        /\ auth.token \in {Null, Undefined} => items[tokenKey] = Null

\* C25: the promise of Modal.confirm is true exactly when the confirm
\* button was clicked before any other dismissal (cancel button, close
\* button, Escape, overlay click) was requested, and false otherwise: a
\* click on confirm after another dismissal cannot make it true.
C25_ConfirmOnlyFirst ==
    /\ confirm.promise = "true" => confirm.first = "confirm"
    /\ confirm.promise = "false" => confirm.first = "other"

\* C26: however many close requests arrive before animationend, the cleanup
\* runs once for an open(): the overlay is removed once, no removeChild is
\* attempted on an overlay that is not attached, onClose is called once.
C26_CleanupOnce ==
    /\ modal.runs <= 1
    /\ modal.failed = 0
    /\ modal.runs > 0 => modal.removed = 1 /\ modal.closed = 1

\* every validator of every named field returns a truthy result for the
\* values the fields had when the event came
AllValid(values) ==
    \A n \in Fields : \A i \in 1..Len(form.validators[n]) :
        Call(form.validators[n][i], values[n]) = "truthy"

\* C27: after a submit event, onSubmit was called only if every validator
\* of every named field returned a truthy result; validateForm evaluated
\* all the named fields and returned true exactly when all are valid; the
\* form was reset only if onSubmit did not end in an error; an error of
\* onSubmit is recorded as the 'form' error and does not propagate.
C27_SubmitGated ==
    form.event.name = "submit" =>
        LET e == form.event
        IN /\ e.called => AllValid(e.before)
           /\ e.evaluated = Fields
           /\ e.valid <=> AllValid(e.before)
           /\ e.reset => e.outcome = "ok"
           /\ e.called /\ e.outcome # "ok" =>
                  form.errors["form"] # "none" /\ ~e.propagated

====
